---- MODULE Spec2Model ----
(***************************************************************************)
(* A model of the code-intelligence core of gitpro:                        *)
(*   backend/services/anomaly_detector.py  (feature vectors, detection,    *)
(*                                          attribution and reporting)     *)
(*   backend/services/kpi_calculator.py    (the KPI scorecard)             *)
(*                                                                         *)
(* Number representation.  Python floats are modelled by exact rationals   *)
(* <<numerator, denominator>> with a positive denominator.  The metric     *)
(* values the extractor rounds to two decimals (comment_ratio,             *)
(* avg_complexity, maintainability_index, halstead_difficulty,             *)
(* consistency_score, vocabulary_richness, comment_meaningfulness) are     *)
(* stored as integers in hundredths; counts are plain integers.  Values    *)
(* the KPI code rounds to one decimal are stored in tenths, values it      *)
(* rounds to two decimals in hundredths.  Raw isolation scores are in      *)
(* thousandths.                                                            *)
(*                                                                         *)
(* Python optionals (a list argument that may be None) are sequences of    *)
(* length at most one: None is << >> and a list l is << l >>.  A dict is   *)
(* a function whose domain is its key set; the empty dict is << >>.        *)
(***************************************************************************)
EXTENDS Integers, Sequences, FiniteSets, TLC

VARIABLES
    nlp_analyses,    \* optional list of per-file analysis records
    commits,         \* optional list of commit dicts
    prs,             \* optional list of pull-request dicts
    random_state,    \* seed of the IsolationForest built for this call
    features,        \* feature matrix of the current call
    predictions,     \* labels returned by fit_predict (-1 anomalous, 1 normal)
    anomaly_scores,  \* raw scores returned by score_samples, in thousandths
    anomalies,       \* list returned by detect_code_anomalies
    kpis,            \* dict returned by calculate_kpis
    clock,           \* datetime.utcnow(), as a counter
    first,           \* optional record of the first completed invocation
    pc,              \* position of the current invocation
    important_files, \* file_data list fetch_repo_tree_recursive returned
    requests,        \* the analyze requests in progress, by worker
    analysis_cache,  \* services.cache.analysis_cache: repo_id -> result
    analysis_results,\* rows of the analysis_results table
    history,         \* log of the writes that completed, oldest first
    fetched          \* optional value the last db_service call returned

\* the state of the hosting application around the scoring core
app_vars == <<important_files, requests, analysis_cache, analysis_results,
              history, fetched>>

vars == <<nlp_analyses, commits, prs, random_state, features, predictions,
          anomaly_scores, anomalies, kpis, clock, first, pc, important_files,
          requests, analysis_cache, analysis_results, history, fetched>>

----------------------------------------------------------------------------
(* Bounds of the model *)

MaxFiles == 3

MaxCommits == 12

MaxAuthors == 6

MaxPrs == 3

MaxClock == 3

\* copies of one file in a batch of look-alikes
MaxCluster == 10

\* files fetch_repo_tree_recursive returns for one request
MaxFetched == 2
MaxWrites == 2

\* stretches (a first line and the lines below it) a source text is made of
MaxSegments == 2

----------------------------------------------------------------------------
(* Python helpers *)

None == << >>

Some(x) == << x >>

\* bool(x) of an optional list: None and [] are falsy
Truthy(opt) == opt # None /\ opt[1] # << >>

\* d.get(k, default)
Get(d, k, default) == IF k \in DOMAIN d THEN d[k] ELSE default

Max2(a, b) == IF a >= b THEN a ELSE b

Min2(a, b) == IF a <= b THEN a ELSE b

Abs(a) == IF a < 0 THEN -a ELSE a

RECURSIVE Gcd(_, _)
Gcd(a, b) == IF b = 0 THEN a ELSE Gcd(b, a % b)

\* the rational n/d (d > 0) in lowest terms
Rat(n, d) == LET g == Gcd(Abs(n), d) IN <<n \div g, d \div g>>

RInt(n) == <<n, 1>>

RAdd(a, b) == Rat(a[1] * b[2] + b[1] * a[2], a[2] * b[2])

RSub(a, b) == Rat(a[1] * b[2] - b[1] * a[2], a[2] * b[2])

RMul(a, b) == Rat(a[1] * b[1], a[2] * b[2])

RLe(a, b) == a[1] * b[2] <= b[1] * a[2]

RLt(a, b) == a[1] * b[2] < b[1] * a[2]

RMin(a, b) == IF RLe(a, b) THEN a ELSE b

RMax(a, b) == IF RLe(b, a) THEN a ELSE b

\* int(x): truncation toward zero
Trunc(a) == IF a[1] >= 0 THEN a[1] \div a[2] ELSE -((-a[1]) \div a[2])

\* round(x, k) as an integer number of 10^-k units (scale = 10^k):
\* nearest, ties to even
Round(a, scale) ==
    LET n == a[1] * scale
        q == n \div a[2]
        r == n % a[2]
    IN  IF 2 * r < a[2] THEN q
        ELSE IF 2 * r > a[2] THEN q + 1
        ELSE IF q % 2 = 0 THEN q ELSE q + 1

RECURSIVE SumSeq(_)
SumSeq(s) == IF s = << >> THEN 0 ELSE Head(s) + SumSeq(Tail(s))

\* str.lower() on the letters that occur in the smell strings
LowerChar(c) ==
    CASE c = "A" -> "a" [] c = "C" -> "c" [] c = "D" -> "d" [] c = "E" -> "e"
      [] c = "H" -> "h" [] c = "I" -> "i" [] c = "K" -> "k" [] c = "L" -> "l"
      [] c = "O" -> "o" [] c = "P" -> "p" [] c = "R" -> "r" [] c = "S" -> "s"
      [] c = "T" -> "t" [] c = "W" -> "w" [] c = "Y" -> "y"
      [] OTHER -> c

RECURSIVE Lower(_)
Lower(s) ==
    IF s = "" THEN ""
    ELSE LowerChar(SubSeq(s, 1, 1)) \o Lower(SubSeq(s, 2, Len(s)))

\* keyword in s
Contains(s, keyword) ==
    \E i \in 1..(Len(s) - Len(keyword) + 1) :
        SubSeq(s, i, i + Len(keyword) - 1) = keyword

----------------------------------------------------------------------------
(* nlp_analyzer.py.  The text of a file is represented by what the          *)
(* analyzers find in it: the counts and lists they would compute, and the   *)
(* name of the step that raises on it, if any.                              *)

\* d[k] = v on a dict
Put(d, k, v) == [x \in DOMAIN d \cup {k} |-> IF x = k THEN v ELSE d[x]]

\* the part of a name after its last dot
RECURSIVE AfterLastDot(_)
AfterLastDot(name) ==
    IF name = "" THEN ""
    ELSE IF Contains(SubSeq(name, 2, Len(name)), ".")
         THEN AfterLastDot(SubSeq(name, 2, Len(name)))
    ELSE IF SubSeq(name, 1, 1) = "." THEN SubSeq(name, 2, Len(name))
    ELSE AfterLastDot(SubSeq(name, 2, Len(name)))

code_extensions == { "py", "js", "ts", "jsx", "tsx", "go", "java", "rs", "cpp", "c", "cs" }

\* mutant: the extension compared without regard to case
file_ext_lowercased(filename) ==
    IF Contains(filename, ".") THEN Lower(AfterLastDot(filename)) ELSE ""

\* filename.split('.')[-1] if '.' in filename else ''
file_ext(filename) ==
    IF Contains(filename, ".") THEN AfterLastDot(filename) ELSE ""

\* the radon block of analyze_code_file; whatever it raises is dropped
\* together with the metrics not yet written
radon_metrics(content, results) ==
    LET blocks == content.complexity_blocks
        total == SumSeq([i \in 1..Len(blocks) |-> blocks[i].complexity])
        flagged == SelectSeq(blocks, LAMBDA block : block.complexity > 10)
        after_cc ==
            IF content.raises = "cc_visit" \/ blocks = << >> THEN results
            ELSE [results EXCEPT
                    !.metrics =
                        Put(Put(@, "avg_complexity", Round(Rat(total, Len(blocks)), 100)),
                            "max_complexity",
                            CHOOSE c \in { blocks[i].complexity : i \in 1..Len(blocks) } :
                                \A i \in 1..Len(blocks) : blocks[i].complexity <= c),
                    !.smells =
                        @ \o [i \in 1..Len(flagged) |->
                                 "High complexity in " \o flagged[i].name \o ": "
                                     \o ToString(flagged[i].complexity)]]
        after_mi ==
            IF content.raises = "cc_visit" THEN after_cc
            ELSE IF content.raises = "mi_visit" \/ content.mi_score = 0 THEN after_cc
            ELSE [after_cc EXCEPT
                    !.metrics = Put(@, "maintainability_index", content.mi_score)]
    IN  IF content.raises \in {"cc_visit", "mi_visit", "h_visit"}
           \/ content.halstead = None
        THEN after_mi
        ELSE [after_mi EXCEPT
                !.metrics = Put(Put(@, "halstead_difficulty", content.halstead[1].difficulty),
                                "halstead_effort", content.halstead[1].effort)]

\* analyze_naming_conventions: nothing without identifiers
naming_conventions(content, results) ==
    IF content.naming = None THEN results
    ELSE [results EXCEPT !.naming = content.naming[1]]

\* assess_documentation
documentation_counts(file_ext_, content, results) ==
    LET with_docstrings ==
            IF file_ext_ = "py" THEN Put(results.documentation, "docstrings", content.docstrings)
            ELSE results.documentation
        with_jsdocs ==
            IF file_ext_ \in {"js", "ts", "jsx", "tsx"}
            THEN Put(with_docstrings, "jsdocs", content.jsdocs)
            ELSE with_docstrings
    IN  [results EXCEPT !.documentation = Put(with_jsdocs, "todos", content.todos)]

\* semantic_analysis: an exception anywhere inside it is dropped, what was
\* written before it stays
semantic_analysis(content, results) ==
    LET words == content.identifier_words
        after_identifiers ==
            IF content.raises = "stopwords" \/ words = None THEN results
            ELSE Put(results, "semantic",
                     [unique_identifier_words |-> words[1].unique,
                      total_identifier_words |-> words[1].total,
                      vocabulary_richness |->
                          Round(Rat(words[1].unique, Max2(words[1].total, 1)), 100),
                      most_common_terms |-> words[1].terms])
        comments == content.comment_tokens
    IN  IF content.raises \in {"stopwords", "word_tokenize"} \/ comments = None
        THEN after_identifiers
        ELSE IF "semantic" \notin DOMAIN after_identifiers
        THEN after_identifiers  \* KeyError, dropped
        ELSE [after_identifiers EXCEPT
                !.semantic =
                    Put(Put(@, "comment_meaningfulness",
                            Round(Rat(comments[1].meaningful, comments[1].tokens), 100)),
                        "avg_comment_length", comments[1].avg_length)]

\* the steps of analyze_code_file whose exception reaches its outer handler,
\* in the order they run
outer_steps ==
    << "split", "detect_comments", "radon", "detect_code_smells",
       "analyze_naming_conventions", "assess_documentation", "semantic_analysis" >>

\* what one step writes into results when it does not raise
run_step(step, file_ext_, content, fast_mode, results) ==
    CASE step = "split" ->
           [results EXCEPT
              !.metrics = Put(Put(@, "total_lines", content.lines),
                              "non_empty_lines", content.non_empty_lines)]
      [] step = "detect_comments" ->
           [results EXCEPT
              !.metrics = Put(Put(@, "comment_lines", content.comment_lines),
                              "comment_ratio",
                              Round(Rat(content.comment_lines, Max2(content.lines, 1)),
                                    100))]
      [] step = "radon" ->
           IF file_ext_ = "py" THEN radon_metrics(content, results) ELSE results
      [] step = "detect_code_smells" ->
           [results EXCEPT !.smells = @ \o content.smells]
      [] step = "analyze_naming_conventions" -> naming_conventions(content, results)
      [] step = "assess_documentation" -> documentation_counts(file_ext_, content, results)
      [] step = "semantic_analysis" ->
           IF fast_mode
           THEN Put(results, "semantic",
                    [vocabulary_richness |-> 50, comment_meaningfulness |-> 50])
           ELSE semantic_analysis(content, results)

\* the try block of analyze_code_file from a given step on: the first step
\* that raises ends it with results['error'] = str(e)
RECURSIVE run_steps(_, _, _, _, _)
run_steps(steps, file_ext_, content, fast_mode, results) ==
    IF steps = << >> THEN results
    ELSE IF content.raises = Head(steps)
    THEN Put(results, "error", Head(steps) \o " failed")
    ELSE run_steps(Tail(steps), file_ext_, content, fast_mode,
                   run_step(Head(steps), file_ext_, content, fast_mode, results))

analyze_code_file(filename, content, fast_mode) ==
    LET results == [filename |-> filename, metrics |-> << >>, smells |-> << >>,
                    naming |-> << >>, documentation |-> << >>]
    IN  IF file_ext(filename) \notin code_extensions THEN results
        ELSE run_steps(outer_steps, file_ext(filename), content, fast_mode, results)

\* a commented Python or JavaScript text on which every analyzer succeeds
TextPlain ==
    [lines |-> 40, non_empty_lines |-> 32, comment_lines |-> 6,
     complexity_blocks |-> << [name |-> "load", complexity |-> 3],
                              [name |-> "parse", complexity |-> 12] >>,
     mi_score |-> 6125,
     halstead |-> Some([difficulty |-> 410, effort |-> 90000]),
     smells |-> << "Deep nesting at line 12: 5 levels" >>,
     naming |-> Some([snake_case_ratio |-> 60, camel_case_ratio |-> 5,
                      pascal_case_ratio |-> 5, dominant_convention |-> "snake_case",
                      consistency_score |-> 60]),
     docstrings |-> 2, jsdocs |-> 1, todos |-> 1,
     identifier_words |-> Some([unique |-> 12, total |-> 30,
                                terms |-> << "load", "parse" >>]),
     comment_tokens |-> Some([meaningful |-> 9, tokens |-> 20, avg_length |-> 45]),
     raises |-> ""]

\* a text of comments only: no function, no identifier of three letters
TextComments ==
    [lines |-> 3, non_empty_lines |-> 2, comment_lines |-> 2,
     complexity_blocks |-> << >>, mi_score |-> 10000, halstead |-> None,
     smells |-> << >>, naming |-> None,
     docstrings |-> 0, jsdocs |-> 0, todos |-> 0,
     identifier_words |-> None,
     comment_tokens |-> Some([meaningful |-> 1, tokens |-> 2, avg_length |-> 20]),
     raises |-> ""]

\* the plain text failing at each step of a Python analysis that can raise
FailingTexts ==
    { [TextPlain EXCEPT !.raises = step] :
        step \in {"detect_comments", "cc_visit", "mi_visit", "h_visit",
                  "detect_code_smells", "assess_documentation", "stopwords",
                  "word_tokenize"} }

\* the file_data dicts fetch_repo_tree_recursive can return: a name and a
\* text (always a string) under a path
FileData ==
    { [path |-> "src/" \o pair[1], name |-> pair[1], content |-> pair[2]] :
        pair \in ({"utils.py"} \X ({TextPlain, TextComments} \cup FailingTexts))
             \cup ({"app.js"} \X {TextPlain, TextComments,
                                  [TextPlain EXCEPT !.raises = "detect_code_smells"],
                                  [TextPlain EXCEPT !.raises = "word_tokenize"]})
             \cup ({"README.md", "Makefile", "main.PY"}
                      \X {TextPlain, [TextPlain EXCEPT !.raises = "detect_comments"]}) }

\* every list of at most MaxFetched file_data dicts
FetchedLists == UNION { [1..n -> FileData] : n \in 0..MaxFetched }

----------------------------------------------------------------------------
(* nlp_analyzer.py on the text itself: detect_code_smells and               *)
(* analyze_naming_conventions read content as the list of its lines         *)
(* (content.split('\n')); their regular expressions are matched character   *)
(* by character.                                                            *)

\* the character classes \s, [a-z], [A-Z], [0-9] and \w of the patterns
space_chars == {" ", "\t"}
lower_chars ==
    {"a", "b", "c", "d", "e", "f", "g", "h", "i", "j", "k", "l", "m",
     "n", "o", "p", "q", "r", "s", "t", "u", "v", "w", "x", "y", "z"}
upper_chars ==
    {"A", "B", "C", "D", "E", "F", "G", "H", "I", "J", "K", "L", "M",
     "N", "O", "P", "Q", "R", "S", "T", "U", "V", "W", "X", "Y", "Z"}
digit_chars == {"0", "1", "2", "3", "4", "5", "6", "7", "8", "9"}
word_chars == lower_chars \cup upper_chars \cup digit_chars \cup {"_"}

\* the first position from i on whose character is outside the class: where
\* a greedy class* started at i ends
RECURSIVE SkipWhile(_, _, _)
SkipWhile(line, i, class) ==
    IF i <= Len(line) /\ SubSeq(line, i, i) \in class
    THEN SkipWhile(line, i + 1, class)
    ELSE i

\* the literal stands at position i
LiteralAt(line, i, literal) ==
    /\ i + Len(literal) - 1 <= Len(line)
    /\ SubSeq(line, i, i + Len(literal) - 1) = literal

\* ^\s*<keyword>\s+(\w+): the captured name, or "" without a match
keyword_name(line, keyword) ==
    LET k == SkipWhile(line, 1, space_chars)
        a == SkipWhile(line, k + Len(keyword), space_chars)
        b == SkipWhile(line, a, word_chars)
    IN  IF LiteralAt(line, k, keyword) /\ a > k + Len(keyword) /\ b > a
        THEN SubSeq(line, a, b - 1)
        ELSE ""

\* ^\s*const\s+(\w+)\s*=\s*\(
const_arrow_name(line) ==
    LET name == keyword_name(line, "const")
        k == SkipWhile(line, 1, space_chars)
        a == SkipWhile(line, k + 5, space_chars)
        b == SkipWhile(line, a, word_chars)
        eq == SkipWhile(line, b, space_chars)
        paren == SkipWhile(line, eq + 1, space_chars)
    IN  IF name # "" /\ LiteralAt(line, eq, "=") /\ LiteralAt(line, paren, "(")
        THEN name
        ELSE ""

\* \s*\w+\s+(\w+)\s*\( from position i on: the captured name, or ""
typed_name_at(line, i) ==
    LET a == SkipWhile(line, i, space_chars)
        b == SkipWhile(line, a, word_chars)
        c == SkipWhile(line, b, space_chars)
        d == SkipWhile(line, c, word_chars)
        e == SkipWhile(line, d, space_chars)
    IN  IF b > a /\ c > b /\ d > c /\ LiteralAt(line, e, "(")
        THEN SubSeq(line, c, d - 1)
        ELSE ""

\* re.search(function_patterns[file_ext], line): None without a match,
\* otherwise the groups 1 and 2, "" for a group that took no part
re_search(file_ext_, line) ==
    LET k == SkipWhile(line, 1, space_chars)
    IN  IF file_ext_ = "py"
        THEN (IF keyword_name(line, "def") # ""
              THEN Some(<< keyword_name(line, "def"), "" >>) ELSE None)
        ELSE IF file_ext_ = "go"
        THEN (IF keyword_name(line, "func") # ""
              THEN Some(<< keyword_name(line, "func"), "" >>) ELSE None)
        ELSE IF file_ext_ \in {"js", "ts"}
        THEN (IF keyword_name(line, "function") # ""
              THEN Some(<< keyword_name(line, "function"), "" >>)
              ELSE IF const_arrow_name(line) # ""
              THEN Some(<< "", const_arrow_name(line) >>)
              ELSE None)
        ELSE \* java: ^\s*(public|private|protected)?\s*\w+\s+(\w+)\s*\(
             LET modifiers == { m \in {"public", "private", "protected"} :
                                  /\ LiteralAt(line, k, m)
                                  /\ typed_name_at(line, k + Len(m)) # "" }
             IN  IF modifiers # {}
                 THEN LET m == CHOOSE m \in modifiers : TRUE
                      IN  Some(<< m, typed_name_at(line, k + Len(m)) >>)
                 ELSE IF typed_name_at(line, 1) # ""
                 THEN Some(<< "", typed_name_at(line, 1) >>)
                 ELSE None

\* match.group(1) or match.group(2)
declared_name(file_ext_, line) ==
    LET match == re_search(file_ext_, line)
    IN  IF match[1][1] # "" THEN match[1][1] ELSE match[1][2]

\* the extensions function_patterns has a pattern for
function_patterns == {"py", "js", "ts", "go", "java"}

\* mutant: a function of exactly 50 lines is long as well
long_function_from_50(length) == length >= 50

\* (i - function_start) > 50
long_function(length) == length > 50

\* the indices i (0-based) of the lines at which re.search finds a match,
\* in the order the loop meets them
matching_lines(lines_, file_ext_) ==
    SelectSeq([k \in 1..Len(lines_) |-> k - 1],
              LAMBDA i : re_search(file_ext_, lines_[i + 1]) # None)

\* the loop over the lines, taken at the lines that match (the others change
\* nothing), from the k-th of them on: the smells appended
RECURSIVE long_function_smells(_, _, _, _, _, _)
long_function_smells(lines_, file_ext_, matches, k, current_function, function_start) ==
    IF k > Len(matches) THEN << >>
    ELSE LET i == matches[k]
         IN  (IF current_function # "" /\ long_function(i - function_start)
              THEN << "Long function '" \o current_function \o "': "
                         \o ToString(i - function_start) \o " lines" >>
              ELSE << >>)
             \o long_function_smells(lines_, file_ext_, matches, k + 1,
                                     declared_name(file_ext_, lines_[i + 1]), i)

\* number of occurrences of a character in a line
CountChar(line, char) == Cardinality({ i \in 1..Len(line) : SubSeq(line, i, i) = char })

\* the nesting level detect_code_smells computes for a line
indent_level(line, file_ext_) ==
    IF file_ext_ = "py" THEN (SkipWhile(line, 1, space_chars) - 1) \div 4
    ELSE CountChar(line, "{") - CountChar(line, "}")

\* the deep-nesting loop: the first line nested more than 4 levels
deep_nesting_smells(lines_, file_ext_) ==
    LET deep == { i \in 1..Len(lines_) : indent_level(lines_[i], file_ext_) > 4 }
    IN  IF deep = {} THEN << >>
        ELSE LET i == CHOOSE i \in deep : \A j \in deep : i <= j
             IN  << "Deep nesting at line " \o ToString(i) \o ": "
                        \o ToString(indent_level(lines_[i], file_ext_)) \o " levels" >>

\* detect_code_smells(content, file_ext, results)
detect_code_smells(lines_, file_ext_, results) ==
    [results EXCEPT !.smells =
        @ \o (IF file_ext_ \in function_patterns
              THEN long_function_smells(lines_, file_ext_,
                       matching_lines(lines_, file_ext_), 1, "", 0)
              ELSE << >>)
          \o deep_nesting_smells(lines_, file_ext_)]

\* re.findall(r'\b([a-zA-Z_][a-zA-Z0-9_]*)\b', line) from position i on: the
\* maximal runs of word characters that do not start with a digit
RECURSIVE findall_identifiers(_, _)
findall_identifiers(line, i) ==
    IF i > Len(line) THEN << >>
    ELSE IF SubSeq(line, i, i) \notin word_chars THEN findall_identifiers(line, i + 1)
    ELSE LET e == SkipWhile(line, i, word_chars)
         IN  (IF SubSeq(line, i, i) \in digit_chars THEN << >>
              ELSE << SubSeq(line, i, e - 1) >>)
             \o findall_identifiers(line, e)

\* the identifiers of the lines lo..hi of the text, line after line
RECURSIVE identifiers_between(_, _, _)
identifiers_between(lines_, lo, hi) ==
    IF lo > hi THEN << >>
    ELSE IF lo = hi THEN findall_identifiers(lines_[lo], 1)
    ELSE identifiers_between(lines_, lo, (lo + hi) \div 2)
            \o identifiers_between(lines_, (lo + hi) \div 2 + 1, hi)

\* re.findall(identifier_pattern, content)
identifiers(lines_) == identifiers_between(lines_, 1, Len(lines_))

\* any(c.isupper() for c in word)
any_upper(word) == \E k \in 1..Len(word) : SubSeq(word, k, k) \in upper_chars

\* word.islower(): a cased character, and none of them upper case
islower(word) ==
    /\ \E k \in 1..Len(word) : SubSeq(word, k, k) \in lower_chars
    /\ ~any_upper(word)

\* '_' in i and i.islower()
is_snake_case(word) == CountChar(word, "_") > 0 /\ islower(word)

\* i[0].islower() and any(c.isupper() for c in i)
is_camel_case(word) == SubSeq(word, 1, 1) \in lower_chars /\ any_upper(word)

\* i[0].isupper() and any(c.isupper() for c in i[1:])
is_pascal_case(word) ==
    SubSeq(word, 1, 1) \in upper_chars /\ any_upper(SubSeq(word, 2, Len(word)))

\* sum(1 for i in identifiers if ...), for each of the three buckets
snake_case(identifiers_) == Len(SelectSeq(identifiers_, is_snake_case))
camel_case(identifiers_) == Len(SelectSeq(identifiers_, is_camel_case))
pascal_case(identifiers_) == Len(SelectSeq(identifiers_, is_pascal_case))

\* analyze_naming_conventions(content, file_ext, results); max() keeps the
\* first of equal counts
analyze_naming_conventions(lines_, file_ext_, results) ==
    LET identifiers_ == identifiers(lines_)
        total == Len(identifiers_)
        snake == snake_case(identifiers_)
        camel == camel_case(identifiers_)
        pascal == pascal_case(identifiers_)
        dominant ==
            IF snake >= camel /\ snake >= pascal THEN << "snake_case", snake >>
            ELSE IF camel >= pascal THEN << "camelCase", camel >>
            ELSE << "PascalCase", pascal >>
    IN  IF identifiers_ = << >> THEN results
        ELSE [results EXCEPT !.naming =
                [snake_case_ratio |-> Round(Rat(snake, total), 100),
                 camel_case_ratio |-> Round(Rat(camel, total), 100),
                 pascal_case_ratio |-> Round(Rat(pascal, total), 100),
                 dominant_convention |-> dominant[1],
                 consistency_score |-> Round(Rat(dominant[2], total), 100)]]

\* the two text analyzers as analyze_code_file runs them on a code file
analyze_text(filename, lines_) ==
    LET results == [filename |-> filename, metrics |-> << >>, smells |-> << >>,
                    naming |-> << >>, documentation |-> << >>]
    IN  IF file_ext(filename) \notin code_extensions THEN results
        ELSE analyze_naming_conventions(lines_, file_ext(filename),
                 detect_code_smells(lines_, file_ext(filename), results))

----------------------------------------------------------------------------
(* Analysis records, as analyze_code_file returns them (nlp_analyzer.py).  *)

\* an unsupported extension: every map is empty and there is no semantic key
FileReadme ==
    [filename |-> "README.md", metrics |-> << >>, smells |-> << >>,
     naming |-> << >>, documentation |-> << >>]

\* a well-kept Python file with every metric measured
FileUtils ==
    [filename |-> "utils.py",
     metrics |-> [total_lines |-> 200, non_empty_lines |-> 180,
                  comment_lines |-> 70, comment_ratio |-> 35,
                  avg_complexity |-> 350, max_complexity |-> 8,
                  maintainability_index |-> 8550,
                  halstead_difficulty |-> 410, halstead_effort |-> 90000],
     smells |-> << >>,
     naming |-> [snake_case_ratio |-> 60, camel_case_ratio |-> 5,
                 pascal_case_ratio |-> 5, dominant_convention |-> "snake_case",
                 consistency_score |-> 60],
     documentation |-> [docstrings |-> 4, todos |-> 0],
     semantic |-> [vocabulary_richness |-> 40, comment_meaningfulness |-> 50]]

\* a complex Python file whose maintainability index came out falsy (unset)
FileLegacy ==
    [filename |-> "legacy.py",
     metrics |-> [total_lines |-> 100, non_empty_lines |-> 100,
                  comment_lines |-> 0, comment_ratio |-> 0,
                  avg_complexity |-> 2000, max_complexity |-> 25,
                  halstead_difficulty |-> 1250, halstead_effort |-> 400000],
     smells |-> << "High complexity in get_token: 25",
                   "Deep nesting at line 12: 5 levels" >>,
     naming |-> [snake_case_ratio |-> 34, camel_case_ratio |-> 33,
                 pascal_case_ratio |-> 10, dominant_convention |-> "snake_case",
                 consistency_score |-> 34],
     documentation |-> [docstrings |-> 0, todos |-> 3],
     semantic |-> [vocabulary_richness |-> 25]]

\* a JavaScript file: no complexity, maintainability or Halstead metrics
FileApp ==
    [filename |-> "app.js",
     metrics |-> [total_lines |-> 400, non_empty_lines |-> 350,
                  comment_lines |-> 160, comment_ratio |-> 40],
     smells |-> << "Long function 'render': 60 lines" >>,
     naming |-> [snake_case_ratio |-> 2, camel_case_ratio |-> 50,
                 pascal_case_ratio |-> 8, dominant_convention |-> "camelCase",
                 consistency_score |-> 50],
     documentation |-> [jsdocs |-> 1, todos |-> 1],
     semantic |-> [vocabulary_richness |-> 70, comment_meaningfulness |-> 45]]

\* a supported file whose extraction failed after the first metrics
FileBroken ==
    [filename |-> "broken.py",
     metrics |-> [total_lines |-> 50, non_empty_lines |-> 40],
     smells |-> << >>, naming |-> << >>, documentation |-> << >>,
     error |-> "extraction failed"]

\* a short file carrying security-related smells
FileSecrets ==
    [filename |-> "settings.py",
     metrics |-> [total_lines |-> 20, non_empty_lines |-> 20,
                  comment_lines |-> 1, comment_ratio |-> 5,
                  avg_complexity |-> 1600, max_complexity |-> 16,
                  maintainability_index |-> 10000],
     smells |-> << "Hardcoded password found",
                   "API_KEY and Secret in source",
                   "High complexity in load_tokens: 16",
                   "private_key committed",
                   "SECRET PASSWORD TOKEN",
                   "Deep nesting at line 3: 6 levels" >>,
     naming |-> [consistency_score |-> 100],
     documentation |-> [todos |-> 0],
     semantic |-> [vocabulary_richness |-> 100, comment_meaningfulness |-> 0]]

\* a record that carries nothing but its file name
FileBare == [filename |-> "notes.txt"]

\* utils.py grown to 5000 lines, every other metric as before
FileHuge ==
    [FileUtils EXCEPT !.filename = "generated.py",
                      !.metrics.total_lines = 5000]

\* utils.py cut down to a dozen lines, every other metric as before
FileStub ==
    [FileUtils EXCEPT !.filename = "stub.py",
                      !.metrics.total_lines = 12,
                      !.metrics.non_empty_lines = 10]

Catalog == << FileReadme, FileUtils, FileLegacy, FileApp, FileBroken, FileSecrets >>

\* every list of at most MaxFiles catalogue records
AllBatches == UNION { [1..n -> {Catalog[k] : k \in 1..Len(Catalog)}] : n \in 0..MaxFiles }

\* lists of at most MaxFiles records that walk the detector's catalogue
\* from record r (stride 1) or repeat record r (stride 0)
DetectCatalog ==
    << FileReadme, FileUtils, FileBare, FileBroken, FileLegacy, FileApp, FileSecrets >>

WalkBatches ==
    { [i \in 1..n |-> DetectCatalog[((r + (i - 1) * stride) % Len(DetectCatalog)) + 1]] :
        n \in 0..MaxFiles, r \in 0..(Len(DetectCatalog) - 1), stride \in {0, 1} }

\* k copies of one record with a list of other records before or after them
ClusterBatch(base, k, others, others_first) ==
    IF others_first THEN others \o [i \in 1..k |-> base]
    ELSE [i \in 1..k |-> base] \o others

\* batches of 2..MaxCluster look-alikes with at most two other records
ClusterBatches ==
    { ClusterBatch(base, k, others, others_first) :
        base \in {FileUtils, FileLegacy, FileReadme},
        k \in 2..MaxCluster,
        others \in UNION { [1..m -> {FileHuge, FileStub, FileLegacy, FileReadme}] :
                             m \in 0..2 },
        others_first \in BOOLEAN }

----------------------------------------------------------------------------
(* anomaly_detector.py *)

\* mutant: random_state left unset, the seed differs from run to run
random_states_unseeded == {42, 7}

\* AnomalyDetector.__init__: the seeds a freshly built forest can run with
\* (random_state=42 fixes the one seed)
random_states == {42}

\* the names extract_features assigns to self.feature_names, in vector order
feature_names ==
    << "total_lines", "non_empty_lines", "comment_lines", "comment_ratio",
       "avg_complexity", "max_complexity", "maintainability_index",
       "halstead_difficulty", "smell_count", "naming_consistency",
       "vocabulary_richness", "comment_meaningfulness" >>

\* mutant: comment_ratio and comment_lines change places in the row
file_features_swapped(analysis) ==
    LET metrics == Get(analysis, "metrics", << >>)
        naming == Get(analysis, "naming", << >>)
        semantic == Get(analysis, "semantic", << >>)
    IN  << Get(metrics, "total_lines", 0),
           Get(metrics, "non_empty_lines", 0),
           Get(metrics, "comment_ratio", 0),
           Get(metrics, "comment_lines", 0),
           Get(metrics, "avg_complexity", 0),
           Get(metrics, "max_complexity", 0),
           Get(metrics, "maintainability_index", 0),
           Get(metrics, "halstead_difficulty", 0),
           Len(Get(analysis, "smells", << >>)),
           Get(naming, "consistency_score", 0),
           Get(semantic, "vocabulary_richness", 0),
           Get(semantic, "comment_meaningfulness", 0) >>

\* the row extract_features builds for one analysis record
file_features(analysis) ==
    LET metrics == Get(analysis, "metrics", << >>)
        naming == Get(analysis, "naming", << >>)
        semantic == Get(analysis, "semantic", << >>)
    IN  << Get(metrics, "total_lines", 0),
           Get(metrics, "non_empty_lines", 0),
           Get(metrics, "comment_lines", 0),
           Get(metrics, "comment_ratio", 0),
           Get(metrics, "avg_complexity", 0),
           Get(metrics, "max_complexity", 0),
           Get(metrics, "maintainability_index", 0),
           Get(metrics, "halstead_difficulty", 0),
           Len(Get(analysis, "smells", << >>)),
           Get(naming, "consistency_score", 0),
           Get(semantic, "vocabulary_richness", 0),
           Get(semantic, "comment_meaningfulness", 0) >>

\* extract_features: one row per record, in batch order
extract_features(analyses) ==
    [i \in 1..Len(analyses) |-> file_features(analyses[i])]

\* column `dim` of the feature matrix
Column(all_features, dim) == [i \in 1..Len(all_features) |-> all_features[i][dim]]

\* np.mean(all_features, axis=0)[dim]
feature_mean(all_features, dim) ==
    Rat(SumSeq(Column(all_features, dim)), Len(all_features))

\* the smallest entry of a non-empty column
RECURSIVE ColumnMin(_)
ColumnMin(col) ==
    IF Len(col) = 1 THEN col[1] ELSE Min2(Head(col), ColumnMin(Tail(col)))

\* the greatest common divisor of the entries' distances from `low`, or 1
RECURSIVE ColumnStep(_, _)
ColumnStep(col, low) ==
    IF col = << >> THEN 0 ELSE Gcd(Head(col) - low, ColumnStep(Tail(col), low))

\* (value - mean) / std does not change when the column is shifted and
\* divided by a positive factor: a value counted in steps above the column's
\* minimum, which keeps the sums of squares small
InSteps(value, low, step) == IF step = 0 THEN 0 ELSE (value - low) \div step

\* n^2 times the population variance np.std(...)^2 of a column, n its length
ScaledVariance(col) ==
    LET n == Len(col)
        s == SumSeq(col)
    IN  n * SumSeq([i \in 1..n |-> col[i] * col[i]]) - s * s

\* mutant: the threshold at 1.5 standard deviations, (n*v - s)^2 > 2.25 * V
z_score_above_1_5(value, all_features, dim) ==
    LET n == Len(all_features)
        raw == Column(all_features, dim)
        low == ColumnMin(raw)
        step == ColumnStep(raw, low)
        col == [i \in 1..n |-> InSteps(raw[i], low, step)]
        s == SumSeq(col)
        u == InSteps(value, low, step)
        v == ScaledVariance(col)
    IN  /\ v > 0
        /\ 4 * (n * u - s) * (n * u - s) > 9 * v

\* std > 0 and abs((value - mean) / std) > 2, compared on squares:
\* |v - s/n| > 2 * sqrt(V)/n  <=>  (n*v - s)^2 > 4 * V
z_score_above_2(value, all_features, dim) ==
    LET n == Len(all_features)
        raw == Column(all_features, dim)
        low == ColumnMin(raw)
        step == ColumnStep(raw, low)
        col == [i \in 1..n |-> InSteps(raw[i], low, step)]
        s == SumSeq(col)
        u == InSteps(value, low, step)
        v == ScaledVariance(col)
    IN  /\ v > 0
        /\ (n * u - s) * (n * u - s) > 4 * v

\* format(x, ".<digits>f") of a non-negative rational, scale = 10^digits
Pad(frac, scale) ==
    IF scale = 100 /\ frac < 10 THEN "0" \o ToString(frac) ELSE ToString(frac)

Fixed(a, scale) ==
    LET q == Round(a, scale)
    IN  ToString(q \div scale) \o "." \o Pad(q % scale, scale)

\* mutant: the rules without their direction
anomaly_type_either_side(feature_name, value, mean) ==
    IF feature_name = "avg_complexity" THEN "complexity"
    ELSE IF feature_name = "total_lines" THEN "size"
    ELSE IF feature_name = "comment_ratio" THEN "documentation"
    ELSE IF feature_name = "naming_consistency" THEN "naming"
    ELSE IF feature_name = "smell_count" THEN "code_smells"
    ELSE ""

\* the anomaly type a dimension maps to when its z-score exceeds 2, or ""
anomaly_type(feature_name, value, mean) ==
    IF feature_name = "avg_complexity" /\ RLt(mean, RInt(value)) THEN "complexity"
    ELSE IF feature_name = "total_lines" /\ RLt(mean, RInt(value)) THEN "size"
    ELSE IF feature_name = "comment_ratio" /\ RLt(RInt(value), mean) THEN "documentation"
    ELSE IF feature_name = "naming_consistency" /\ RLt(RInt(value), mean) THEN "naming"
    ELSE IF feature_name = "smell_count" /\ RLt(mean, RInt(value)) THEN "code_smells"
    ELSE ""

\* the reason text appended with an anomaly type; value and mean of the
\* two-decimal metrics are stored in hundredths
reason(type, value, mean) ==
    CASE type = "complexity" ->
           "High complexity (" \o Fixed(Rat(value, 100), 10) \o " vs avg "
             \o Fixed(RMul(mean, Rat(1, 100)), 10) \o ")"
      [] type = "size" ->
           "Large file (" \o ToString(value) \o " lines vs avg "
             \o ToString(Trunc(mean)) \o ")"
      [] type = "documentation" ->
           "Low documentation (" \o Fixed(RInt(value), 10) \o "% vs avg "
             \o Fixed(mean, 10) \o "%)"
      [] type = "naming" ->
           "Inconsistent naming (score " \o Fixed(Rat(value, 100), 100) \o " vs avg "
             \o Fixed(RMul(mean, Rat(1, 100)), 100) \o ")"
      [] type = "code_smells" ->
           "Multiple code smells (" \o ToString(value) \o " detected)"

\* the dimensions, in vector order, on which an anomaly type fires
fired_dims(file_features_, all_features) ==
    SelectSeq([d \in 1..Len(feature_names) |-> d],
              LAMBDA d :
                  /\ z_score_above_2(file_features_[d], all_features, d)
                  /\ anomaly_type(feature_names[d], file_features_[d],
                                  feature_mean(all_features, d)) # "")

RECURSIVE Join(_, _)
Join(strs, sep) ==
    IF strs = << >> THEN ""
    ELSE IF Len(strs) = 1 THEN strs[1]
    ELSE strs[1] \o sep \o Join(Tail(strs), sep)

\* mutant: the normalized score without the clamp to 0..100
normalized_score_unclamped(anomaly_score) ==
    Trunc(RMul(RSub(RInt(1), RAdd(Rat(anomaly_score, 1000), Rat(1, 2))), RInt(100)))

\* normalized_score: int((1 - (anomaly_score + 0.5)) * 100), clamped
normalized_score(anomaly_score) ==
    LET raw == Trunc(RMul(RSub(RInt(1), RAdd(Rat(anomaly_score, 1000), Rat(1, 2))),
                          RInt(100)))
    IN  Max2(0, Min2(100, raw))

_create_anomaly_report(analysis, file_features_, anomaly_score, all_features) ==
    LET dims == fired_dims(file_features_, all_features)
        anomaly_types ==
            [k \in 1..Len(dims) |->
                anomaly_type(feature_names[dims[k]], file_features_[dims[k]],
                             feature_mean(all_features, dims[k]))]
        reasons ==
            [k \in 1..Len(dims) |->
                reason(anomaly_types[k], file_features_[dims[k]],
                       feature_mean(all_features, dims[k]))]
    IN  [file |-> Get(analysis, "filename", "unknown"),
         score |-> normalized_score(anomaly_score),
         types |-> IF anomaly_types # << >> THEN anomaly_types ELSE << "general" >>,
         description |-> IF reasons # << >> THEN Join(reasons, "; ")
                         ELSE "Statistical outlier in code metrics",
         metrics |-> [complexity |-> file_features_[5],
                      lines |-> file_features_[1],
                      comment_ratio |-> file_features_[4],
                      smells |-> file_features_[9]]]

\* mutant: the guard lets batches of two through
too_few_samples_below_2(analyses_) == ~Truthy(analyses_) \/ Len(analyses_[1]) < 2

\* the guard of detect_anomalies: not nlp_analyses or len(nlp_analyses) < 3
too_few_samples(analyses_) == ~Truthy(analyses_) \/ Len(analyses_[1]) < 3

\* mutant: the sort without reverse=True
RECURSIVE InsertByScoreAscending(_, _)
InsertByScoreAscending(sorted, report) ==
    IF sorted = << >> THEN << report >>
    ELSE IF Head(sorted).score <= report.score
         THEN << Head(sorted) >> \o InsertByScoreAscending(Tail(sorted), report)
         ELSE << report >> \o sorted

\* list.sort(key=score, reverse=True): a stable sort, highest score first
RECURSIVE InsertByScore(_, _)
InsertByScore(sorted, report) ==
    IF sorted = << >> THEN << report >>
    ELSE IF Head(sorted).score >= report.score
         THEN << Head(sorted) >> \o InsertByScore(Tail(sorted), report)
         ELSE << report >> \o sorted

RECURSIVE SortByScore(_)
SortByScore(reports) ==
    IF reports = << >> THEN << >>
    ELSE InsertByScore(SortByScore(SubSeq(reports, 1, Len(reports) - 1)),
                       reports[Len(reports)])

\* mutant: the feature row is taken at the report's position in the list of
\* flagged files, not at the file's position in the batch
anomaly_reports_row_by_rank(analyses, all_features, preds, scores) ==
    LET flagged == SelectSeq([i \in 1..Len(analyses) |-> i],
                             LAMBDA i : preds[i] = -1)
    IN  SortByScore([k \in 1..Len(flagged) |->
                        _create_anomaly_report(analyses[flagged[k]],
                                               all_features[k],
                                               scores[flagged[k]],
                                               all_features)])

\* the body of detect_anomalies once the forest has answered
anomaly_reports(analyses, all_features, preds, scores) ==
    LET flagged == SelectSeq([i \in 1..Len(analyses) |-> i],
                             LAMBDA i : preds[i] = -1)
    IN  SortByScore([k \in 1..Len(flagged) |->
                        _create_anomaly_report(analyses[flagged[k]],
                                               all_features[flagged[k]],
                                               scores[flagged[k]],
                                               all_features)])

----------------------------------------------------------------------------
(* The IsolationForest the detector is built with (contamination 0.1, 100    *)
(* trees, each grown on the whole batch since max_samples is min(256, n)).  *)
(* A tree splits a node on a feature that is not constant in it, at a       *)
(* threshold drawn between the feature's minimum and maximum, and stops at  *)
(* a node of one sample or of identical samples.  When the batch has at     *)
(* most two distinct rows every tree is the same whatever is drawn: the     *)
(* root is a leaf (one distinct row) or its split parts the two groups      *)
(* (two distinct rows), and the scores follow.  With more distinct rows     *)
(* the scores depend on the draws and are left open.                        *)

\* mutant: half of the batch expected anomalous
contamination_half == Rat(1, 2)

\* contamination=0.1
contamination == Rat(1, 10)

\* the library's average path length c(n) = 2(ln(n-1) + 0.5772) - 2(n-1)/n
\* of an unsuccessful search among n samples, in thousandths (c(1) = 0,
\* c(2) = 1)
average_path_length(n) ==
    << 0, 1000, 1207, 1852, 2327, 2707, 3024, 3296, 3536, 3749, 3941, 4117,
       4278, 4427, 4566, 4696 >>[n]

\* 2^(-x) for x >= 0, both in thousandths: interpolated between the values
\* at the tenths, less than a thousandth off
pow2_neg(x) ==
    LET tenths == << 1000, 933, 871, 812, 758, 707, 660, 616, 574, 536, 500 >>
        j == (x % 1000) \div 100
        r == (x % 1000) % 100
    IN  ((tenths[j + 1] * (100 - r) + tenths[j + 2] * r) \div 100) \div (2 ^ (x \div 1000))

\* the distinct rows of a feature matrix
distinct_rows(all_features) == { all_features[i] : i \in 1..Len(all_features) }

\* depth of the leaf a row ends in plus c(size of that leaf), in thousandths,
\* for a matrix of at most two distinct rows
path_length(all_features, row) ==
    LET same == Cardinality({ i \in 1..Len(all_features) : all_features[i] = row })
    IN  IF Cardinality(distinct_rows(all_features)) = 1
        THEN average_path_length(same)
        ELSE 1000 + average_path_length(same)

\* the score vectors score_samples can return for a fitted matrix, in
\* thousandths: -2^(-path_length / c(n)) where the trees are determined,
\* otherwise some score per distinct row out of `open_scores`
score_samples(all_features, open_scores) ==
    LET n == Len(all_features)
        rows == distinct_rows(all_features)
    IN  IF Cardinality(rows) <= 2
        THEN { [i \in 1..n |->
                   -pow2_neg((path_length(all_features, all_features[i]) * 1000)
                                 \div average_path_length(n))] }
        ELSE { [i \in 1..n |-> by_row[all_features[i]]] :
                 by_row \in [rows -> open_scores] }

\* a list of integers in ascending order
RECURSIVE Ascending(_)
Ascending(scores) ==
    IF scores = << >> THEN << >>
    ELSE LET rest == Ascending(Tail(scores))
             below == SelectSeq(rest, LAMBDA x : x <= Head(scores))
             above == SelectSeq(rest, LAMBDA x : x > Head(scores))
         IN  below \o << Head(scores) >> \o above

\* offset_ = np.percentile(scores, 100 * contamination), interpolated
\* linearly between the two nearest ranks
offset_(scores) ==
    LET sorted == Ascending(scores)
        rank == RMul(RInt(Len(scores) - 1), contamination)
        lower == Trunc(rank)
        fraction == RSub(rank, RInt(lower))
    IN  IF lower + 2 > Len(sorted) THEN RInt(sorted[lower + 1])
        ELSE RAdd(RInt(sorted[lower + 1]),
                  RMul(fraction, RInt(sorted[lower + 2] - sorted[lower + 1])))

\* mutant: the files at or above the offset are the ones labelled -1
fit_predict_above_offset(scores) ==
    [i \in 1..Len(scores) |-> IF RLt(RInt(scores[i]), offset_(scores)) THEN 1 ELSE -1]

\* fit_predict: -1 for a score below the offset, 1 otherwise
fit_predict(scores) ==
    [i \in 1..Len(scores) |-> IF RLt(RInt(scores[i]), offset_(scores)) THEN -1 ELSE 1]

----------------------------------------------------------------------------
(* kpi_calculator.py *)

\* np.mean(values) if values else 0, the values being hundredths
MeanOrZero(values) ==
    IF values = << >> THEN RInt(0) ELSE Rat(SumSeq(values), 100 * Len(values))

\* mutant: one smell counted per file that has any
total_smells_one_per_file(analyses) ==
    SumSeq([i \in 1..Len(analyses) |->
               Min2(1, Len(Get(analyses[i], "smells", << >>)))])

\* sum(len(a.get('smells', [])) for a in nlp_analyses)
total_smells(analyses) ==
    SumSeq([i \in 1..Len(analyses) |-> Len(Get(analyses[i], "smells", << >>))])

\* complexity sub-score of _calculate_quality_score
complexity_score(avg_complexity) ==
    LET s == IF RLt(RInt(5), avg_complexity)
             THEN RMax(RInt(0),
                       RSub(RInt(100), RMul(RSub(avg_complexity, RInt(5)), RInt(10))))
             ELSE RInt(100)
    IN  RMax(RInt(0), RMin(RInt(100), s))

\* mutant: the documentation sub-score without its cap
doc_score_uncapped(comment_ratio) == RMul(comment_ratio, RInt(300))

\* documentation sub-score of _calculate_quality_score
doc_score(comment_ratio) == RMin(RInt(100), RMul(comment_ratio, RInt(300)))

\* smell sub-score of _calculate_quality_score
smell_score(smell_density) ==
    LET s == RMax(RInt(0), RSub(RInt(100), RMul(smell_density, RInt(5))))
    IN  RMax(RInt(0), RMin(RInt(100), s))

_calculate_quality_score(avg_complexity, comment_ratio, smell_density) ==
    RAdd(RAdd(RMul(complexity_score(avg_complexity), Rat(4, 10)),
              RMul(doc_score(comment_ratio), Rat(3, 10))),
         RMul(smell_score(smell_density), Rat(3, 10)))

\* mutant: the complexity mean taken over every file, measured or not
quality_inputs_every_file(analyses) ==
    LET lines == SumSeq([i \in 1..Len(analyses) |->
                            Get(analyses[i].metrics, "total_lines", 0)])
        smells == total_smells(analyses)
        measured == analyses
    IN  [total_lines |-> lines,
         total_smells |-> smells,
         avg_complexity |->
            MeanOrZero([i \in 1..Len(measured) |->
                           Get(measured[i].metrics, "avg_complexity", 0)]),
         avg_comment_ratio |->
            MeanOrZero([i \in 1..Len(analyses) |->
                           Get(analyses[i].metrics, "comment_ratio", 0)]),
         smell_density |-> RMul(Rat(smells, Max2(lines, 1)), RInt(1000))]

\* the locals of _calculate_quality_kpis
quality_inputs(analyses) ==
    LET lines == SumSeq([i \in 1..Len(analyses) |->
                            Get(analyses[i].metrics, "total_lines", 0)])
        smells == total_smells(analyses)
        measured == SelectSeq(analyses, LAMBDA a : "avg_complexity" \in DOMAIN a.metrics)
    IN  [total_lines |-> lines,
         total_smells |-> smells,
         avg_complexity |->
            MeanOrZero([i \in 1..Len(measured) |->
                           Get(measured[i].metrics, "avg_complexity", 0)]),
         avg_comment_ratio |->
            MeanOrZero([i \in 1..Len(analyses) |->
                           Get(analyses[i].metrics, "comment_ratio", 0)]),
         smell_density |-> RMul(Rat(smells, Max2(lines, 1)), RInt(1000))]

_calculate_quality_kpis(analyses) ==
    LET q == quality_inputs(analyses)
    IN  [quality_score |->
            Round(_calculate_quality_score(q.avg_complexity, q.avg_comment_ratio,
                                           q.smell_density), 10),
         avg_complexity |-> Round(q.avg_complexity, 100),
         code_smell_density |-> Round(q.smell_density, 100),
         documentation_coverage |-> Round(RMul(q.avg_comment_ratio, RInt(100)), 10),
         total_code_smells |-> q.total_smells,
         total_lines_of_code |-> q.total_lines]

_calculate_maintainability_kpis(analyses) ==
    LET with_mi == SelectSeq(analyses,
                         LAMBDA a : "maintainability_index" \in DOMAIN a.metrics)
        avg_mi == MeanOrZero([i \in 1..Len(with_mi) |->
                                 Get(with_mi[i].metrics, "maintainability_index", 0)])
        with_naming == SelectSeq(analyses, LAMBDA a : DOMAIN Get(a, "naming", << >>) # {})
        avg_naming_consistency ==
            MeanOrZero([i \in 1..Len(with_naming) |->
                           Get(with_naming[i].naming, "consistency_score", 0)])
        with_semantic == SelectSeq(analyses, LAMBDA a : DOMAIN Get(a, "semantic", << >>) # {})
        avg_vocab_richness ==
            MeanOrZero([i \in 1..Len(with_semantic) |->
                           Get(with_semantic[i].semantic, "vocabulary_richness", 0)])
        high_complexity_files ==
            Len(SelectSeq(analyses, LAMBDA a : Get(a.metrics, "max_complexity", 0) > 10))
        technical_debt_hours == total_smells(analyses) * 2 + high_complexity_files * 8
    IN  [maintainability_index |-> Round(avg_mi, 10),
         naming_consistency |-> Round(RMul(avg_naming_consistency, RInt(100)), 10),
         vocabulary_richness |-> Round(RMul(avg_vocab_richness, RInt(100)), 10),
         technical_debt_hours |-> technical_debt_hours,
         technical_debt_days |-> Round(Rat(technical_debt_hours, 8), 10)]

\* len(x) if x else 0, for an optional list
LenOrZero(opt) == IF Truthy(opt) THEN Len(opt[1]) ELSE 0

\* commit.get('commit', {}).get('author', {}).get('name'), an optional name
author_name(commit) ==
    Get(Get(Get(commit, "commit", << >>), "author", << >>), "name", None)

\* the set of truthy author names of the commits
contributors(commits_) ==
    IF Truthy(commits_)
    THEN { author_name(commits_[1][i])[1] :
             i \in { j \in 1..Len(commits_[1]) :
                        /\ author_name(commits_[1][j]) # None
                        /\ author_name(commits_[1][j])[1] # "" } }
    ELSE {}

\* merged_prs / max(pr_count, 1) * 100 if pr_count > 0 else 0
pr_merge_rate(prs_) ==
    LET pr_count == LenOrZero(prs_)
        merged_prs ==
            IF Truthy(prs_)
            THEN Len(SelectSeq(prs_[1], LAMBDA pr : Get(pr, "merged_at", None) # None))
            ELSE 0
    IN  IF pr_count > 0
        THEN RMul(Rat(merged_prs, Max2(pr_count, 1)), RInt(100))
        ELSE RInt(0)

\* mutant: no pull requests score 0 instead of the default 50
pr_score_zero_default(prs_) ==
    IF LenOrZero(prs_) > 0 THEN pr_merge_rate(prs_) ELSE RInt(0)

commit_score(commits_) ==
    RMin(RInt(100), RMul(Rat(LenOrZero(commits_), 10), RInt(100)))

pr_score(prs_) == IF LenOrZero(prs_) > 0 THEN pr_merge_rate(prs_) ELSE RInt(50)

contributor_score(commits_) ==
    RMin(RInt(100), RMul(Rat(Cardinality(contributors(commits_)), 5), RInt(100)))

_calculate_productivity_kpis(commits_, prs_) ==
    IF ~Truthy(commits_) /\ ~Truthy(prs_)
    THEN [productivity_score |-> 0, commit_frequency |-> 0, pr_merge_rate |-> 0,
          avg_pr_size |-> 0, active_contributors |-> 0]
    ELSE [productivity_score |->
             Round(RAdd(RAdd(RMul(commit_score(commits_), Rat(4, 10)),
                             RMul(pr_score(prs_), Rat(3, 10))),
                        RMul(contributor_score(commits_), Rat(3, 10))), 10),
          commit_frequency |-> LenOrZero(commits_),
          pr_merge_rate |-> Round(pr_merge_rate(prs_), 10),
          avg_pr_size |-> 0,
          active_contributors |-> Cardinality(contributors(commits_))]

security_keywords == << "password", "secret", "token", "api_key", "private_key" >>

\* mutant: the keyword test without lower()
is_security_smell_case_sensitive(smell) ==
    \E k \in 1..Len(security_keywords) : Contains(smell, security_keywords[k])

\* any(keyword in smell.lower() for keyword in security_keywords)
is_security_smell(smell) ==
    \E k \in 1..Len(security_keywords) : Contains(Lower(smell), security_keywords[k])

_calculate_security_kpis(analyses) ==
    LET security_issues ==
            SumSeq([i \in 1..Len(analyses) |->
                       Len(SelectSeq(Get(analyses[i], "smells", << >>),
                                     is_security_smell))])
        high_complexity_count ==
            Len(SelectSeq(analyses, LAMBDA a : Get(a.metrics, "max_complexity", 0) > 15))
    IN  [security_issue_count |-> security_issues,
         risk_score |-> Min2(100, security_issues * 10 + high_complexity_count * 5
                                    + total_smells(analyses) * 2),
         high_complexity_files |-> high_complexity_count]

\* mutant: quality and maintainability weighted evenly
_calculate_overall_score_even_weights(kpis_) ==
    Round(RAdd(RMul(Rat(kpis_.quality.quality_score, 10), Rat(5, 10)),
               RMul(Rat(kpis_.maintainability.maintainability_index, 10), Rat(5, 10))),
          10)

\* overall score, in tenths, from the rounded quality score and
\* maintainability index (both in tenths)
_calculate_overall_score(kpis_) ==
    Round(RAdd(RMul(Rat(kpis_.quality.quality_score, 10), Rat(6, 10)),
               RMul(Rat(kpis_.maintainability.maintainability_index, 10), Rat(4, 10))),
          10)

\* mutant: the grade table without its D row
_score_to_grade_without_d(score) ==
    IF score >= 900 THEN "A"
    ELSE IF score >= 800 THEN "B"
    ELSE IF score >= 700 THEN "C"
    ELSE "F"

\* score is in tenths
_score_to_grade(score) ==
    IF score >= 900 THEN "A"
    ELSE IF score >= 800 THEN "B"
    ELSE IF score >= 700 THEN "C"
    ELSE IF score >= 600 THEN "D"
    ELSE "F"

_empty_kpis ==
    [quality |-> << >>, maintainability |-> << >>, productivity |-> << >>,
     security |-> << >>,
     summary |-> [overall_health_score |-> 0, grade |-> "N/A", analyzed_files |-> 0]]

\* calculate_kpis past its guard: the four categories and the summary
scored_kpis(analyses, commits_, prs_, now) ==
    LET categories ==
            [quality |-> _calculate_quality_kpis(analyses),
             maintainability |-> _calculate_maintainability_kpis(analyses),
             productivity |-> _calculate_productivity_kpis(commits_, prs_),
             security |-> _calculate_security_kpis(analyses)]
        overall == _calculate_overall_score(categories)
    IN  [quality |-> categories.quality,
         maintainability |-> categories.maintainability,
         productivity |-> categories.productivity,
         security |-> categories.security,
         summary |-> [overall_health_score |-> overall,
                      grade |-> _score_to_grade(overall),
                      analyzed_files |-> Len(analyses),
                      timestamp |-> now]]

\* mutant: the empty batch still gets its productivity computed
calculate_kpis_scoring_activity(analyses_, commits_, prs_, now) ==
    IF ~Truthy(analyses_)
    THEN [_empty_kpis EXCEPT !.productivity = _calculate_productivity_kpis(commits_, prs_)]
    ELSE scored_kpis(analyses_[1], commits_, prs_, now)

\* a['metrics'] raises KeyError on a record without that key: the batches on
\* which calculate_kpis raises instead of returning
calculate_kpis_raises(analyses_) ==
    /\ Truthy(analyses_)
    /\ \E i \in 1..Len(analyses_[1]) : "metrics" \notin DOMAIN analyses_[1][i]

\* calculate_kpis; `now` is datetime.utcnow()
calculate_kpis(analyses_, commits_, prs_, now) ==
    IF ~Truthy(analyses_) THEN _empty_kpis
    ELSE scored_kpis(analyses_[1], commits_, prs_, now)

----------------------------------------------------------------------------
(* db_service: the analysis_results table.  A JSON text is the list of its  *)
(* tokens.  json.dumps picks the encoding of a value by its Python type;    *)
(* the values here carry no type, so the type is the one the pipeline       *)
(* gives the value stored under the key.                                    *)

\* one token of a JSON text: punctuation carries no value
Tok(t, v) == [t |-> t, v |-> v]

\* the keys of the two reports in the order the pipeline inserts them
key_order ==
    << "kpis", "quality", "maintainability", "productivity", "security", "summary",
       "quality_score", "avg_complexity", "code_smell_density",
       "documentation_coverage", "total_code_smells", "total_lines_of_code",
       "maintainability_index", "naming_consistency", "vocabulary_richness",
       "technical_debt_hours", "technical_debt_days",
       "productivity_score", "commit_frequency", "pr_merge_rate", "avg_pr_size",
       "active_contributors",
       "security_issue_count", "risk_score", "high_complexity_files",
       "overall_health_score", "grade", "analyzed_files", "timestamp",
       "file", "score", "types", "description", "metrics",
       "complexity", "lines", "comment_ratio", "smells" >>

\* keys whose value is a str, a dict, a list of str, a list of dicts; the
\* other keys hold numbers
str_keys == {"grade", "timestamp", "file", "description"}
dict_keys == {"kpis", "quality", "maintainability", "productivity", "security",
              "summary", "metrics"}
str_list_keys == {"types"}
dict_list_keys == {"anomalies"}

\* json.dumps(o) for the value o stored under `key`
RECURSIVE json_dumps(_, _)
RECURSIVE dumps_items(_, _)
RECURSIVE dumps_dicts(_, _)
dumps_items(o, k) ==
    IF k > Len(key_order) THEN << >>
    ELSE IF key_order[k] \in DOMAIN o
         THEN << Tok("key", key_order[k]) >> \o json_dumps(key_order[k], o[key_order[k]])
              \o dumps_items(o, k + 1)
         ELSE dumps_items(o, k + 1)

dumps_dicts(list, i) ==
    IF i > Len(list) THEN << >>
    ELSE json_dumps("metrics", list[i]) \o dumps_dicts(list, i + 1)

json_dumps(key, o) ==
    IF key \in str_keys THEN << Tok("string", o) >>
    ELSE IF key \in dict_keys
    THEN << Tok("{", 0) >> \o dumps_items(o, 1) \o << Tok("}", 0) >>
    ELSE IF key \in str_list_keys
    THEN << Tok("[", 0) >> \o [i \in 1..Len(o) |-> Tok("string", o[i])]
         \o << Tok("]", 0) >>
    ELSE IF key \in dict_list_keys
    THEN << Tok("[", 0) >> \o dumps_dicts(o, 1) \o << Tok("]", 0) >>
    ELSE << Tok("number", o) >>

\* json.loads(s): the value that starts at token i and the position after it
RECURSIVE parse_value(_, _)
RECURSIVE parse_object(_, _, _)
RECURSIVE parse_array(_, _, _)
parse_object(s, i, members) ==
    IF s[i].t = "}" THEN [value |-> members, next |-> i + 1]
    ELSE LET item == parse_value(s, i + 1)
         IN  parse_object(s, item.next, Put(members, s[i].v, item.value))

parse_array(s, i, elements) ==
    IF s[i].t = "]" THEN [value |-> elements, next |-> i + 1]
    ELSE LET item == parse_value(s, i)
         IN  parse_array(s, item.next, Append(elements, item.value))

parse_value(s, i) ==
    IF s[i].t = "{" THEN parse_object(s, i + 1, << >>)
    ELSE IF s[i].t = "[" THEN parse_array(s, i + 1, << >>)
    ELSE [value |-> s[i].v, next |-> i + 1]

json_loads(s) == parse_value(s, 1).value

\* WHERE repo_id = ? AND github_user_id = ?
row_matches(row, repo_id, github_user_id) ==
    row.repo_id = repo_id /\ row.github_user_id = github_user_id

\* mutant: the conflict target is the repository alone
conflict_on_repo_id(row, repo_id, github_user_id) == row.repo_id = repo_id

\* ON CONFLICT (repo_id, github_user_id): the UNIQUE constraint of the table
conflict(row, repo_id, github_user_id) == row_matches(row, repo_id, github_user_id)

\* save_analysis: the table after the upsert has been committed
save_analysis(table, repo_id, github_user_id, analysis_data, now) ==
    LET row ==
            [repo_id |-> repo_id,
             github_user_id |-> github_user_id,
             repo_name |-> Get(analysis_data, "repo_name", ""),
             repo_full_name |-> Get(analysis_data, "repo_full_name", ""),
             analysis_text |-> Get(analysis_data, "analysis", ""),
             kpis |-> json_dumps("kpis", Get(analysis_data, "kpis", << >>)),
             anomalies |-> json_dumps("anomalies", Get(analysis_data, "anomalies", << >>)),
             generated_at |-> Get(analysis_data, "generated_at", now),
             status |-> Get(analysis_data, "status", "completed")]
    IN  IF \E i \in 1..Len(table) : conflict(table[i], repo_id, github_user_id)
        THEN [i \in 1..Len(table) |->
                 IF conflict(table[i], repo_id, github_user_id) THEN row ELSE table[i]]
        ELSE Append(table, row)

\* get_analysis: the first matching row with its JSON columns parsed and
\* analysis_text renamed, or None
get_analysis(table, repo_id, github_user_id) ==
    LET rows == SelectSeq(table, LAMBDA row : row_matches(row, repo_id, github_user_id))
    IN  IF rows # << >>
        THEN LET data == rows[1]
             IN  Some([repo_id |-> data.repo_id,
                       github_user_id |-> data.github_user_id,
                       repo_name |-> data.repo_name,
                       repo_full_name |-> data.repo_full_name,
                       kpis |-> IF data.kpis # << >> THEN json_loads(data.kpis)
                                ELSE << >>,
                       anomalies |-> IF data.anomalies # << >>
                                     THEN json_loads(data.anomalies) ELSE << >>,
                       generated_at |-> data.generated_at,
                       status |-> data.status,
                       analysis |-> data.analysis_text])
        ELSE None

\* delete_analysis: the table after the DELETE has been committed
delete_analysis(table, repo_id, github_user_id) ==
    SelectSeq(table, LAMBDA row : ~row_matches(row, repo_id, github_user_id))

----------------------------------------------------------------------------
(* routes/repos.py: analyze_repo *)

\* detect_code_anomalies(nlp_analyses): the lists it may return, the forest
\* giving labels of its choosing and raw scores from scoreSet
detect_code_anomalies(analyses_, scoreSet) ==
    IF too_few_samples(analyses_) THEN { << >> }
    ELSE LET n == Len(analyses_[1])
             all_features == extract_features(analyses_[1])
         IN  { anomaly_reports(analyses_[1], all_features, preds, scores) :
                   preds \in [1..n -> {-1, 1}], scores \in [1..n -> scoreSet] }

\* the result dict of analyze_repo
analysis_result(repo_id, repo, analysis, kpis_, anomalies_, now) ==
    [repo_id |-> repo_id,
     repo_name |-> repo.name,
     repo_full_name |-> repo.full_name,
     analysis |-> analysis,
     kpis |-> kpis_,
     anomalies |-> anomalies_,
     generated_at |-> now,
     status |-> "completed"]

\* mutant: an entry that exists is kept
cache_setdefault(cache, repo_id, result) ==
    IF repo_id \in DOMAIN cache THEN cache ELSE Put(cache, repo_id, result)

\* analysis_cache[repo_id] = result
cache_setitem(cache, repo_id, result) == Put(cache, repo_id, result)

----------------------------------------------------------------------------
(* routes/dashboard.py, and the lookups of routes/repos.py and             *)
(* routes/analysis.py.  A response is its status code and its body.         *)

\* get_dashboard, lines 40-47: the body built from the analysis found
dashboard_data(repo_id, analysis) ==
    [repo_id |-> repo_id,
     kpis |-> Get(analysis, "kpis", << >>),
     anomalies |-> Get(analysis, "anomalies", << >>),
     generated_at |-> Get(analysis, "generated_at", None),
     status |-> Get(analysis, "status", None)]

\* analysis_cache.get(repo_id), then the fallback to the row of the user the
\* token decodes to; an exception of jwt.decode or of the query leaves None
find_analysis(cache, table, repo_id, github_user_id, decoded) ==
    IF repo_id \in DOMAIN cache THEN Some(cache[repo_id])
    ELSE IF decoded THEN get_analysis(table, repo_id, github_user_id)
    ELSE None

\* get_dashboard(repo_id) for a request whose token, if it is in token_store,
\* names the user
get_dashboard(cache, table, repo_id, user, decoded) ==
    IF user = None THEN [status |-> 401, body |-> None]
    ELSE LET analysis == find_analysis(cache, table, repo_id, user[1], decoded)
         IN  IF analysis = None THEN [status |-> 404, body |-> None]
             ELSE [status |-> 200, body |-> Some(dashboard_data(repo_id, analysis[1]))]

\* get_kpis(repo_id)
get_kpis(cache, table, repo_id, user, decoded) ==
    IF user = None THEN [status |-> 401, body |-> None]
    ELSE LET analysis == find_analysis(cache, table, repo_id, user[1], decoded)
         IN  IF analysis = None \/ "kpis" \notin DOMAIN analysis[1]
             THEN [status |-> 404, body |-> None]
             ELSE [status |-> 200, body |-> Some([kpis |-> analysis[1].kpis])]

\* get_anomalies(repo_id)
get_anomalies(cache, table, repo_id, user, decoded) ==
    IF user = None THEN [status |-> 401, body |-> None]
    ELSE LET analysis == find_analysis(cache, table, repo_id, user[1], decoded)
         IN  IF analysis = None \/ "anomalies" \notin DOMAIN analysis[1]
             THEN [status |-> 404, body |-> None]
             ELSE [status |-> 200,
                   body |-> Some([anomalies |-> analysis[1].anomalies,
                                  count |-> Len(analysis[1].anomalies)])]

\* get_analysis_result(repo_id) of routes/repos.py and get_analysis(repo_id)
\* of routes/analysis.py: the cache entry, whatever the request carries
get_analysis_result(cache, repo_id) ==
    IF repo_id \in DOMAIN cache THEN [status |-> 200, body |-> Some(cache[repo_id])]
    ELSE [status |-> 404, body |-> None]

----------------------------------------------------------------------------
(* Inputs *)

\* raw scores score_samples may return, in thousandths: below, inside and
\* above the range the normalisation maps onto 0..100
RawScores == {-800, -455, -120, 700}

\* the raw scores used where an invocation is replayed
ReplayScores == {-455, -120}

\* the raw scores a forest whose trees depend on the draws may give a row
OpenScores == {-620, -480}

\* a commit by the author with the given optional name
Commit(name) == [sha |-> "c0ffee", commit |-> [author |-> [name |-> name]]]

\* a commit whose payload carries no author
CommitNoAuthor == [sha |-> "c0ffee", commit |-> [message |-> "wip"]]

\* c commits: with k > 0 the authors User1..Userk take turns, with k = 0
\* no commit has a usable author name; with anon = 1 the first commit has
\* an empty author name
CommitList(c, k, anon) ==
    [i \in 1..c |->
        IF k = 0 THEN (IF i % 3 = 0 THEN Commit(Some(""))
                       ELSE IF i % 3 = 1 THEN CommitNoAuthor
                       ELSE Commit(None))
        ELSE IF anon = 1 /\ i = 1 THEN Commit(Some(""))
        ELSE Commit(Some("User" \o ToString(((i - 1) % k) + 1)))]

CommitLists ==
    {None} \cup
    { Some(CommitList(c, k, anon)) :
        c \in 0..MaxCommits, k \in 0..MaxAuthors, anon \in {0, 1} }

\* p pull requests of which the first m are merged
PrList(p, m) ==
    [i \in 1..p |->
        IF i <= m THEN [number |-> i, state |-> "closed",
                        merged_at |-> Some("2024-01-01T00:00:00Z")]
        ELSE IF i % 2 = 0 THEN [number |-> i, state |-> "open", merged_at |-> None]
        ELSE [number |-> i, state |-> "open"]]

PrLists == {None} \cup { Some(PrList(p, m)) : p \in 0..MaxPrs, m \in 0..MaxPrs }

\* a few (commits, prs) pairs
ActivitySamples ==
    { <<None, None>>,
      <<Some(CommitList(5, 1, 0)), Some(<< >>)>>,
      <<Some(CommitList(3, 2, 1)), Some(PrList(2, 1))>> }

\* the (batch, commits, prs) triples an invocation is replayed on
PipelineInputs ==
    { <<None, Some(CommitList(5, 1, 0)), Some(<< >>)>>,
      <<Some(<< >>), Some(CommitList(5, 1, 0)), Some(<< >>)>>,
      <<Some(<< >>), Some(<< >>), None>>,
      <<Some(<< FileLegacy >>), Some(<< >>), None>>,
      <<Some(<< FileUtils >>), Some(CommitList(3, 2, 1)), Some(PrList(2, 1))>>,
      <<Some(<< FileUtils, FileReadme >>), None, None>>,
      <<Some(<< FileUtils, FileBroken >>), None, None>>,
      <<Some(<< FileUtils, FileLegacy >>), None, Some(PrList(1, 1))>>,
      <<Some(<< FileUtils, FileApp, FileSecrets >>),
        Some(CommitList(5, 1, 0)), Some(<< >>)>>,
      <<Some(<< FileReadme, FileLegacy, FileBroken >>),
        Some(CommitList(3, 2, 1)), Some(PrList(2, 1))>> }

\* repository ids and the ids of the users who ask
RepoIds == {1, 2}
UserIds == {7, 8}

\* get_repo_details(github_token, repo_id)
get_repo_details(repo_id) ==
    IF repo_id = 1 THEN [name |-> "gitpro", full_name |-> "adamfutur/gitpro"]
    ELSE [name |-> "notes", full_name |-> "adamfutur/notes"]

\* the users whose session token the server holds in token_store
SessionUsers == {7}

\* the threads of the server that handle analyze requests at the same time
Workers == {1, 2, 3}

\* the (nlp_analyses, commits, prs) triples analyze_repo gathers: the lists
\* are never None there
RouteInputs ==
    << <<Some(<< >>), Some(<< >>), Some(<< >>)>>,
       <<Some(<< FileUtils, FileLegacy >>), Some(CommitList(3, 2, 1)), Some(PrList(2, 1))>> >>

\* reports analyze_repo hands to save_analysis: of an empty repository, of
\* a small one, and of one with two reported files
StoreKpis ==
    << _empty_kpis,
       calculate_kpis(Some(<< FileUtils >>), Some(CommitList(3, 2, 1)),
                      Some(PrList(2, 1)), 1),
       calculate_kpis(Some(<< FileUtils, FileApp, FileSecrets >>),
                      Some(CommitList(5, 1, 0)), Some(<< >>), 3) >>

StoreAnomalies ==
    LET three == << FileUtils, FileApp, FileSecrets >>
    IN  << << >>,
           << >>,
           anomaly_reports(three, extract_features(three),
                           << 1, -1, -1 >>, << -120, -455, -800 >>) >>

StoreResults(repo_id, p) ==
    analysis_result(repo_id, get_repo_details(repo_id),
                    << "Nothing to analyze.", "A small utility module.",
                       "Secrets in the sources." >>[p],
                    StoreKpis[p], StoreAnomalies[p], p)

----------------------------------------------------------------------------
(* State machine *)

\* no file fetched, no request in progress, empty cache and table
AppIdle ==
    /\ important_files = << >>
    /\ requests = << >>
    /\ analysis_cache = << >>
    /\ analysis_results = << >>
    /\ history = << >>
    /\ fetched = << >>

\* the state before an invocation has computed anything
Fresh ==
    /\ random_state = 0
    /\ features = << >>
    /\ predictions = << >>
    /\ anomaly_scores = << >>
    /\ anomalies = << >>
    /\ kpis = << >>

\* IsolationForest.fit_predict / score_samples on a feature matrix: labels
\* and raw scores of the library's choosing, the same ones whenever the same
\* matrix is fitted with the same seed
ForestAnswers(all_features, seed, preds, scores) ==
    (/\ first # None
     /\ first[1].features = all_features
     /\ first[1].random_state = seed)
        => (/\ preds = first[1].predictions
            /\ scores = first[1].anomaly_scores)

\* detect_code_anomalies(nlp_analyses): a new AnomalyDetector, then
\* detect_anomalies
DetectCodeAnomalies(scoreSet) ==
    /\ pc = "ready"
    /\ \E seed \in random_states :
        /\ random_state' = seed
        /\ IF too_few_samples(nlp_analyses)
           THEN /\ anomalies' = << >>
                /\ features' = << >>
                /\ predictions' = << >>
                /\ anomaly_scores' = << >>
           ELSE LET n == Len(nlp_analyses[1])
                    all_features == extract_features(nlp_analyses[1])
                IN  \E preds \in [1..n -> {-1, 1}], scores \in [1..n -> scoreSet] :
                        /\ ForestAnswers(all_features, seed, preds, scores)
                        /\ features' = all_features
                        /\ predictions' = preds
                        /\ anomaly_scores' = scores
                        /\ anomalies' = anomaly_reports(nlp_analyses[1], all_features,
                                                        preds, scores)
    /\ pc' = "detected"
    /\ UNCHANGED <<nlp_analyses, commits, prs, kpis, clock, first>>
    /\ UNCHANGED app_vars

\* AnomalyDetector().extract_features(nlp_analyses) called on its own
ExtractFeatures ==
    /\ pc = "ready"
    /\ nlp_analyses # None
    /\ features' = extract_features(nlp_analyses[1])
    /\ pc' = "extracted"
    /\ UNCHANGED <<nlp_analyses, commits, prs, random_state, predictions,
                   anomaly_scores, anomalies, kpis, clock, first>>
    /\ UNCHANGED app_vars

\* mutant: the calculator keeps only the records with a measured complexity
\* in the list it was given
CalculateKpis_filtering_in_place ==
    /\ pc \in {"ready", "detected"}
    /\ kpis' = calculate_kpis(nlp_analyses, commits, prs, clock)
    /\ nlp_analyses' =
          IF nlp_analyses = None THEN None
          ELSE Some(SelectSeq(nlp_analyses[1],
                   LAMBDA a : "avg_complexity" \in DOMAIN a.metrics))
    /\ pc' = IF pc = "ready" THEN "scored" ELSE "done"
    /\ UNCHANGED <<commits, prs, random_state, features, predictions,
                   anomaly_scores, anomalies, clock, first>>
    /\ UNCHANGED app_vars

\* calculate_kpis(nlp_analyses, repo, commits, prs)
CalculateKpis ==
    /\ pc \in {"ready", "detected"}
    /\ kpis' = calculate_kpis(nlp_analyses, commits, prs, clock)
    /\ pc' = IF pc = "ready" THEN "scored" ELSE "done"
    /\ UNCHANGED <<nlp_analyses, commits, prs, random_state, features, predictions,
                   anomaly_scores, anomalies, clock, first>>
    /\ UNCHANGED app_vars

\* what an invocation leaves behind for comparison
Invocation ==
    [nlp_analyses |-> nlp_analyses, commits |-> commits, prs |-> prs,
     random_state |-> random_state, features |-> features,
     predictions |-> predictions, anomaly_scores |-> anomaly_scores,
     anomalies |-> anomalies, kpis |-> kpis]

\* the next analyze request arrives, later, with inputs of its own
NextRequest ==
    /\ pc = "done"
    /\ clock < MaxClock
    /\ first' = IF first = None THEN Some(Invocation) ELSE first
    /\ clock' = clock + 1
    /\ \E input \in PipelineInputs :
        /\ nlp_analyses' = input[1]
        /\ commits' = input[2]
        /\ prs' = input[3]
    /\ random_state' = 0
    /\ features' = << >>
    /\ predictions' = << >>
    /\ anomaly_scores' = << >>
    /\ anomalies' = << >>
    /\ kpis' = << >>
    /\ pc' = "ready"
    /\ UNCHANGED app_vars

\* analyze_repo, lines 175-183, request after request
Init ==
    /\ \E input \in PipelineInputs :
        /\ nlp_analyses = input[1]
        /\ commits = input[2]
        /\ prs = input[3]
    /\ Fresh
    /\ AppIdle
    /\ clock = 1
    /\ first = None
    /\ pc = "ready"

AnalyzeRepoKpis == pc = "detected" /\ CalculateKpis

Next ==
    \/ DetectCodeAnomalies(ReplayScores)
    \/ AnalyzeRepoKpis
    \/ NextRequest

Spec == Init /\ [][Next]_vars

\* the detector alone, on batches that walk the catalogue
InitDetect ==
    /\ nlp_analyses \in {None} \cup { Some(b) : b \in WalkBatches }
    /\ commits = None
    /\ prs = None
    /\ Fresh
    /\ AppIdle
    /\ clock = 1
    /\ first = None
    /\ pc = "ready"

NextDetect ==
    \/ DetectCodeAnomalies(RawScores)
    \/ ExtractFeatures

SpecDetect == InitDetect /\ [][NextDetect]_vars

\* the KPI calculator alone: every batch with a few activity lists, and
\* every activity list with a few batches
InitKpi ==
    /\ \/ /\ nlp_analyses \in {None} \cup { Some(b) : b \in AllBatches }
          /\ \E activity \in ActivitySamples :
                /\ commits = activity[1]
                /\ prs = activity[2]
       \/ /\ nlp_analyses \in { Some(<< >>), Some(<< FileUtils >>) }
          /\ commits \in CommitLists
          /\ prs \in PrLists
    /\ Fresh
    /\ AppIdle
    /\ clock = 1
    /\ first = None
    /\ pc = "ready"

ScoreKpis == pc = "ready" /\ CalculateKpis

NextKpi == ScoreKpis

SpecKpi == InitKpi /\ [][NextKpi]_vars

\* detect_code_anomalies(nlp_analyses) with the forest fitted on the batch
DetectWithFittedForest ==
    /\ pc = "ready"
    /\ \E seed \in random_states :
        /\ random_state' = seed
        /\ IF too_few_samples(nlp_analyses)
           THEN /\ anomalies' = << >>
                /\ features' = << >>
                /\ predictions' = << >>
                /\ anomaly_scores' = << >>
           ELSE LET all_features == extract_features(nlp_analyses[1])
                IN  \E scores \in score_samples(all_features, OpenScores) :
                        /\ features' = all_features
                        /\ predictions' = fit_predict(scores)
                        /\ anomaly_scores' = scores
                        /\ anomalies' = anomaly_reports(nlp_analyses[1], all_features,
                                                        fit_predict(scores), scores)
    /\ pc' = "detected"
    /\ UNCHANGED <<nlp_analyses, commits, prs, kpis, clock, first>>
    /\ UNCHANGED app_vars

\* the detector on batches of look-alikes with a few other files among them
InitCluster ==
    /\ nlp_analyses \in { Some(b) : b \in ClusterBatches }
    /\ commits = None
    /\ prs = None
    /\ Fresh
    /\ AppIdle
    /\ clock = 1
    /\ first = None
    /\ pc = "ready"

NextCluster == DetectWithFittedForest

SpecCluster == InitCluster /\ [][NextCluster]_vars

\* analyze_repo, lines 129-134: the next fetched file is analysed and its
\* record appended
AnalyzeNextFile ==
    /\ pc = "extracting"
    /\ LET i == Len(nlp_analyses[1]) + 1
       IN  /\ i <= Len(important_files)
           /\ nlp_analyses' =
                  Some(Append(nlp_analyses[1],
                              analyze_code_file(important_files[i].name,
                                                important_files[i].content, FALSE)))
           /\ pc' = IF i = Len(important_files) THEN "ready" ELSE "extracting"
    /\ UNCHANGED <<commits, prs, random_state, features, predictions, anomaly_scores,
                   anomalies, kpis, clock, first>>
    /\ UNCHANGED <<important_files, requests, analysis_cache, analysis_results,
                   history, fetched>>

\* the extraction loop of analyze_repo, then the feature matrix of its batch
InitExtract ==
    /\ important_files \in FetchedLists
    /\ nlp_analyses = Some(<< >>)
    /\ commits = None
    /\ prs = None
    /\ Fresh
    /\ requests = << >>
    /\ analysis_cache = << >>
    /\ analysis_results = << >>
    /\ history = << >>
    /\ fetched = << >>
    /\ clock = 1
    /\ first = None
    /\ pc = IF important_files = << >> THEN "ready" ELSE "extracting"

NextExtract ==
    \/ AnalyzeNextFile
    \/ ExtractFeatures

SpecExtract == InitExtract /\ [][NextExtract]_vars

\* calculate_kpis(nlp_analyses, repo, commits, prs) called after the
\* detector on any batch: it returns the report, or the KeyError of a record
\* without metrics leaves it and reaches the caller
CalculateKpisOrRaise ==
    /\ pc = "detected"
    /\ IF calculate_kpis_raises(nlp_analyses)
       THEN /\ pc' = "raised"
            /\ kpis' = kpis
       ELSE /\ pc' = "done"
            /\ kpis' = calculate_kpis(nlp_analyses, commits, prs, clock)
    /\ UNCHANGED <<nlp_analyses, commits, prs, random_state, features, predictions,
                   anomaly_scores, anomalies, clock, first>>
    /\ UNCHANGED app_vars

\* the two entry points of the core called in turn, as analyze_repo calls
\* them, on batches that walk the detector's catalogue
InitCore ==
    /\ nlp_analyses \in {None} \cup { Some(b) : b \in WalkBatches }
    /\ \E activity \in ActivitySamples :
          /\ commits = activity[1]
          /\ prs = activity[2]
    /\ Fresh
    /\ AppIdle
    /\ clock = 1
    /\ first = None
    /\ pc = "ready"

NextCore ==
    \/ DetectCodeAnomalies(ReplayScores)
    \/ CalculateKpisOrRaise

SpecCore == InitCore /\ [][NextCore]_vars

\* save_analysis(repo_id, github_user_id, analysis_data) called on its own:
\* the upsert commits, or the call raises (no connection, a user the users
\* table does not hold) and the table stays as it was
SaveAnalysis ==
    /\ Len(history) < MaxWrites
    /\ \E repo_id \in RepoIds, github_user_id \in UserIds, p \in 1..3, committed \in BOOLEAN :
        LET analysis_data == StoreResults(repo_id, p)
        IN  IF committed
            THEN /\ analysis_results' = save_analysis(analysis_results, repo_id,
                                                      github_user_id, analysis_data, clock)
                 /\ history' = Append(history, [op |-> "save", repo_id |-> repo_id,
                                                github_user_id |-> github_user_id,
                                                data |-> analysis_data])
                 /\ pc' = "saved"
            ELSE /\ UNCHANGED <<analysis_results, history>>
                 /\ pc' = "raised"
    /\ UNCHANGED <<nlp_analyses, commits, prs, random_state, features, predictions,
                   anomaly_scores, anomalies, kpis, clock, first>>
    /\ fetched' = None
    /\ UNCHANGED <<important_files, requests, analysis_cache>>

\* delete_analysis(repo_id, github_user_id)
DeleteAnalysis ==
    /\ Len(history) < MaxWrites
    /\ \E repo_id \in RepoIds, github_user_id \in UserIds :
        /\ analysis_results' = delete_analysis(analysis_results, repo_id, github_user_id)
        /\ history' = Append(history, [op |-> "delete", repo_id |-> repo_id,
                                       github_user_id |-> github_user_id,
                                       data |-> << >>])
    /\ pc' = "deleted"
    /\ UNCHANGED <<nlp_analyses, commits, prs, random_state, features, predictions,
                   anomaly_scores, anomalies, kpis, clock, first>>
    /\ fetched' = None
    /\ UNCHANGED <<important_files, requests, analysis_cache>>

\* get_analysis(repo_id, github_user_id)
GetAnalysis ==
    /\ \E repo_id \in RepoIds, github_user_id \in UserIds :
        fetched' = Some([repo_id |-> repo_id, github_user_id |-> github_user_id,
                         returned |-> get_analysis(analysis_results, repo_id,
                                                   github_user_id)])
    /\ pc' = "fetched"
    /\ UNCHANGED <<nlp_analyses, commits, prs, random_state, features, predictions,
                   anomaly_scores, anomalies, kpis, clock, first>>
    /\ UNCHANGED <<important_files, requests, analysis_cache, analysis_results, history>>

\* the three functions of db_service called in any order on an empty table
InitStore ==
    /\ nlp_analyses = None
    /\ commits = None
    /\ prs = None
    /\ Fresh
    /\ AppIdle
    /\ clock = 1
    /\ first = None
    /\ pc = "ready"

NextStore ==
    \/ SaveAnalysis
    \/ DeleteAnalysis
    \/ GetAnalysis

SpecStore == InitStore /\ [][NextStore]_vars

\* a thread that has no request yet
IdleRequest ==
    [pc |-> "idle", repo_id |-> 0, github_user_id |-> 0, result |-> None, status |-> 0]

\* analyze_repo, lines 89-101: the request for a repository arrives and its
\* token names a user, or the answer is 401
Authenticate(w) ==
    /\ requests[w].pc = "idle"
    /\ \E repo_id \in RepoIds, user \in {None} \cup { Some(u) : u \in SessionUsers } :
        requests' = [requests EXCEPT ![w] =
            IF user = None
            THEN [IdleRequest EXCEPT !.pc = "done", !.status = 401]
            ELSE [IdleRequest EXCEPT !.pc = "authorized", !.repo_id = repo_id,
                                     !.github_user_id = user[1]]]
    /\ UNCHANGED <<nlp_analyses, commits, prs, random_state, features, predictions,
                   anomaly_scores, anomalies, kpis, clock, first, pc>>
    /\ UNCHANGED <<important_files, analysis_cache, analysis_results, history, fetched>>

\* analyze_repo, lines 102-194: the repository is fetched and analysed, the
\* detector and calculate_kpis are called and the result dict is built; an
\* exception of any of these calls reaches the handler of lines 202-206,
\* which answers 500
BuildResult(w) ==
    /\ requests[w].pc = "authorized"
    /\ \E k \in 1..Len(RouteInputs), raised \in BOOLEAN :
        LET input == RouteInputs[k]
            repo_id == requests[w].repo_id
        IN  IF raised
            THEN requests' = [requests EXCEPT ![w].pc = "done", ![w].status = 500]
            ELSE \E found \in detect_code_anomalies(input[1], ReplayScores) :
                    requests' = [requests EXCEPT
                        ![w].pc = "built",
                        ![w].result =
                            Some(analysis_result(repo_id, get_repo_details(repo_id),
                                                 "Analysis text.",
                                                 calculate_kpis(input[1], input[2],
                                                                input[3], clock),
                                                 found, clock))]
    /\ UNCHANGED <<nlp_analyses, commits, prs, random_state, features, predictions,
                   anomaly_scores, anomalies, kpis, clock, first, pc>>
    /\ UNCHANGED <<important_files, analysis_cache, analysis_results, history, fetched>>

\* analyze_repo, line 197: save_analysis commits the row, or raises and the
\* handler answers 500
PersistResult(w) ==
    /\ requests[w].pc = "built"
    /\ \E committed \in BOOLEAN :
        IF committed
        THEN /\ analysis_results' = save_analysis(analysis_results, requests[w].repo_id,
                                                  requests[w].github_user_id,
                                                  requests[w].result[1], clock)
             /\ history' = Append(history, [op |-> "save",
                                            repo_id |-> requests[w].repo_id,
                                            github_user_id |-> requests[w].github_user_id,
                                            data |-> requests[w].result[1]])
             /\ requests' = [requests EXCEPT ![w].pc = "saved"]
        ELSE /\ UNCHANGED <<analysis_results, history>>
             /\ requests' = [requests EXCEPT ![w].pc = "done", ![w].status = 500]
    /\ UNCHANGED <<nlp_analyses, commits, prs, random_state, features, predictions,
                   anomaly_scores, anomalies, kpis, clock, first, pc>>
    /\ UNCHANGED <<important_files, analysis_cache, fetched>>

\* analyze_repo, line 199: analysis_cache[repo_id] = result
CacheResult(w) ==
    /\ requests[w].pc = "saved"
    /\ analysis_cache' = cache_setitem(analysis_cache, requests[w].repo_id,
                                       requests[w].result[1])
    /\ history' = Append(history, [op |-> "cache", repo_id |-> requests[w].repo_id,
                                   worker |-> w, data |-> requests[w].result[1]])
    /\ requests' = [requests EXCEPT ![w].pc = "cached"]
    /\ UNCHANGED <<nlp_analyses, commits, prs, random_state, features, predictions,
                   anomaly_scores, anomalies, kpis, clock, first, pc>>
    /\ UNCHANGED <<important_files, analysis_results, fetched>>

\* analyze_repo, line 201: return jsonify(result)
Respond(w) ==
    /\ requests[w].pc = "cached"
    /\ requests' = [requests EXCEPT ![w].pc = "done", ![w].status = 200]
    /\ UNCHANGED <<nlp_analyses, commits, prs, random_state, features, predictions,
                   anomaly_scores, anomalies, kpis, clock, first, pc>>
    /\ UNCHANGED <<important_files, analysis_cache, analysis_results, history, fetched>>

\* the server with an empty cache and table, each thread serving one
\* analyze request, the steps of the requests interleaved
InitRoute ==
    /\ nlp_analyses = None
    /\ commits = None
    /\ prs = None
    /\ Fresh
    /\ important_files = << >>
    /\ requests = [w \in Workers |-> IdleRequest]
    /\ analysis_cache = << >>
    /\ analysis_results = << >>
    /\ history = << >>
    /\ fetched = << >>
    /\ clock = 1
    /\ first = None
    /\ pc = "ready"

NextRoute ==
    \/ \E w \in Workers : Authenticate(w)
    \/ \E w \in Workers : BuildResult(w)
    \/ \E w \in Workers : PersistResult(w)
    \/ \E w \in Workers : CacheResult(w)
    \/ \E w \in Workers : Respond(w)

SpecRoute == InitRoute /\ [][NextRoute]_vars

----------------------------------------------------------------------------
(* The text analyzers on source texts.  A text is a list of stretches, each *)
(* a first line followed by a number of empty lines; the lengths sit on     *)
(* both sides of the 50-line limit of detect_code_smells.                   *)

\* first lines by extension: declarations the function pattern matches, and
\* lines it does not match
FirstLines ==
    [py |-> {"def load_file(path):", "    def run(self):",
             "                    return total"},
     js |-> {"function renderPage(props) {", "const onClick = (event) => {",
             "const total = 1;"},
     go |-> {"func ServeHTTP(w) {", "func main() {", "var x int"},
     java |-> {"public void run() {", "int size() {", "// TODO"},
     rs |-> {"fn main() {", "pub fn parse_args() {"}]

\* empty lines below a first line
BodyLengths == {0, 49, 50}

\* the lines of a list of stretches
RECURSIVE TextLines(_)
TextLines(segments) ==
    IF segments = << >> THEN << >>
    ELSE << Head(segments).first >> \o [k \in 1..Head(segments).body |-> ""]
            \o TextLines(Tail(segments))

\* the files the text analyzers are run on: a name and content.split('\n')
TextFiles ==
    UNION { { [name |-> "main." \o ext, content |-> TextLines(segments)] :
                segments \in UNION { [1..n -> [first : FirstLines[ext],
                                               body : BodyLengths]] :
                                       n \in 1..MaxSegments } } :
            ext \in DOMAIN FirstLines }

InitText ==
    /\ important_files \in { << file >> : file \in TextFiles }
    /\ nlp_analyses = Some(<< >>)
    /\ commits = None
    /\ prs = None
    /\ Fresh
    /\ requests = << >>
    /\ analysis_cache = << >>
    /\ analysis_results = << >>
    /\ history = << >>
    /\ fetched = << >>
    /\ clock = 1
    /\ first = None
    /\ pc = "text"

\* analyze_code_file up to its naming analysis, on the text of the file
AnalyzeText ==
    /\ pc = "text"
    /\ nlp_analyses' = Some(<< analyze_text(important_files[1].name,
                                            important_files[1].content) >>)
    /\ pc' = "text_analysed"
    /\ UNCHANGED <<commits, prs, random_state, features, predictions,
                   anomaly_scores, anomalies, kpis, clock, first, important_files,
                   requests, analysis_cache, analysis_results, history, fetched>>

NextText == AnalyzeText

SpecText == InitText /\ [][NextText]_vars

----------------------------------------------------------------------------
(* analyze_repo with its two consumers in either order.  The route runs the *)
(* detector and then the KPI calculator (repos.py, lines 175-183); here a   *)
(* request may also run the calculator first, or only one of the two, and   *)
(* the repository is analysed again so that the runs can be compared.       *)

\* the file lists fetched for the repositories analysed here
OrderFetched ==
    LET File(name, text) == [path |-> "src/" \o name, name |-> name, content |-> text]
    IN  { << >>,
          << File("utils.py", TextPlain) >>,
          << File("utils.py", TextPlain), File("app.js", TextPlain),
             File("README.md", TextPlain) >>,
          << File("utils.py", TextComments), File("utils.py", TextPlain),
             File("app.js", [TextPlain EXCEPT !.raises = "word_tokenize"]) >>,
          << File("README.md", TextPlain), File("Makefile", TextPlain),
             File("main.PY", TextPlain) >> }

InitOrder ==
    /\ important_files \in OrderFetched
    /\ nlp_analyses = Some(<< >>)
    /\ \/ commits = Some(CommitList(5, 1, 0)) /\ prs = Some(<< >>)
       \/ commits = None /\ prs = None
    /\ Fresh
    /\ requests = << >>
    /\ analysis_cache = << >>
    /\ analysis_results = << >>
    /\ history = << >>
    /\ fetched = << >>
    /\ clock = 1
    /\ first = None
    /\ pc = IF important_files = << >> THEN "ready" ELSE "extracting"

\* detect_code_anomalies(nlp_analyses) called after calculate_kpis
DetectCodeAnomaliesLast(scoreSet) ==
    /\ pc = "scored"
    /\ \E seed \in random_states :
        /\ random_state' = seed
        /\ IF too_few_samples(nlp_analyses)
           THEN /\ anomalies' = << >>
                /\ features' = << >>
                /\ predictions' = << >>
                /\ anomaly_scores' = << >>
           ELSE LET n == Len(nlp_analyses[1])
                    all_features == extract_features(nlp_analyses[1])
                IN  \E preds \in [1..n -> {-1, 1}], scores \in [1..n -> scoreSet] :
                        /\ ForestAnswers(all_features, seed, preds, scores)
                        /\ features' = all_features
                        /\ predictions' = preds
                        /\ anomaly_scores' = scores
                        /\ anomalies' = anomaly_reports(nlp_analyses[1], all_features,
                                                        preds, scores)
    /\ pc' = "detected_last"
    /\ UNCHANGED <<nlp_analyses, commits, prs, kpis, clock, first>>
    /\ UNCHANGED app_vars

\* what a request leaves behind, with the calls it made (its last pc)
InvocationAt ==
    [nlp_analyses |-> nlp_analyses, commits |-> commits, prs |-> prs,
     random_state |-> random_state, features |-> features,
     predictions |-> predictions, anomaly_scores |-> anomaly_scores,
     anomalies |-> anomalies, kpis |-> kpis, calls |-> pc]

\* the same repository is analysed again, later: the same files, commits and
\* pull requests are fetched
AnalyzeAgain ==
    /\ pc \in {"detected", "scored", "done", "detected_last"}
    /\ clock < MaxClock
    /\ first' = IF first = None THEN Some(InvocationAt) ELSE first
    /\ clock' = clock + 1
    /\ nlp_analyses' = Some(<< >>)
    /\ random_state' = 0
    /\ features' = << >>
    /\ predictions' = << >>
    /\ anomaly_scores' = << >>
    /\ anomalies' = << >>
    /\ kpis' = << >>
    /\ pc' = IF important_files = << >> THEN "ready" ELSE "extracting"
    /\ UNCHANGED <<commits, prs>>
    /\ UNCHANGED app_vars

NextOrder ==
    \/ AnalyzeNextFile
    \/ DetectCodeAnomalies(ReplayScores)
    \/ AnalyzeRepoKpis
    \/ ScoreKpis
    \/ DetectCodeAnomaliesLast(ReplayScores)
    \/ AnalyzeAgain

SpecOrder == InitOrder /\ [][NextOrder]_vars

----------------------------------------------------------------------------
(* The server answering lookups.  Users analyse repositories, one request   *)
(* at a time; any client, with the token of a user or with none that        *)
(* token_store knows, asks the five read endpoints; the process may be      *)
(* started anew, which empties the in-memory cache and keeps the table.     *)

\* the read endpoints
Endpoints == {"dashboard", "kpis", "anomalies", "repos_analysis", "analysis"}

\* the response of a read endpoint
serve(endpoint, repo_id, user, decoded) ==
    CASE endpoint = "dashboard" ->
           get_dashboard(analysis_cache, analysis_results, repo_id, user, decoded)
      [] endpoint = "kpis" ->
           get_kpis(analysis_cache, analysis_results, repo_id, user, decoded)
      [] endpoint = "anomalies" ->
           get_anomalies(analysis_cache, analysis_results, repo_id, user, decoded)
      [] OTHER -> get_analysis_result(analysis_cache, repo_id)

\* analyze_repo for an authenticated user, start to finish: the result is
\* built, saved under (repo_id, user) and put in the cache under repo_id
AnalyzeRepo ==
    /\ Len(history) < MaxWrites
    /\ \E repo_id \in RepoIds, github_user_id \in UserIds, p \in {2, 3} :
        LET result == analysis_result(repo_id, get_repo_details(repo_id),
                                      "Analysis text.", StoreKpis[p],
                                      StoreAnomalies[p], clock)
        IN  /\ analysis_results' = save_analysis(analysis_results, repo_id,
                                                 github_user_id, result, clock)
            /\ analysis_cache' = cache_setitem(analysis_cache, repo_id, result)
            /\ history' = Append(history, [op |-> "save", repo_id |-> repo_id,
                                           github_user_id |-> github_user_id,
                                           data |-> result])
    /\ clock' = clock + 1
    /\ fetched' = None
    /\ pc' = "analyzed"
    /\ UNCHANGED <<nlp_analyses, commits, prs, random_state, features, predictions,
                   anomaly_scores, anomalies, kpis, first, important_files, requests>>

\* the process is started anew: the cache is a dict in memory
RestartServer ==
    /\ analysis_cache # << >>
    /\ analysis_cache' = << >>
    /\ fetched' = None
    /\ pc' = "started"
    /\ UNCHANGED <<nlp_analyses, commits, prs, random_state, features, predictions,
                   anomaly_scores, anomalies, kpis, clock, first, important_files,
                   requests, analysis_results, history>>

\* a GET on one of the read endpoints
ServeLookup ==
    /\ \E endpoint \in Endpoints, repo_id \in RepoIds,
          user \in {None} \cup { Some(u) : u \in UserIds }, decoded \in BOOLEAN :
        fetched' = Some([endpoint |-> endpoint, repo_id |-> repo_id, user |-> user,
                         response |-> serve(endpoint, repo_id, user, decoded)])
    /\ pc' = "served"
    /\ UNCHANGED <<nlp_analyses, commits, prs, random_state, features, predictions,
                   anomaly_scores, anomalies, kpis, clock, first, important_files,
                   requests, analysis_cache, analysis_results, history>>

InitServe ==
    /\ nlp_analyses = None
    /\ commits = None
    /\ prs = None
    /\ Fresh
    /\ AppIdle
    /\ clock = 1
    /\ first = None
    /\ pc = "started"

NextServe ==
    \/ AnalyzeRepo
    \/ RestartServer
    \/ ServeLookup

SpecServe == InitServe /\ [][NextServe]_vars

----------------------------------------------------------------------------
(* Properties *)

\* the list in nlp_analyses, [] when it is None
Batch == IF nlp_analyses = None THEN << >> ELSE nlp_analyses[1]

\* the positions of the batch the forest labelled anomalous
Flagged == { i \in 1..Len(predictions) : predictions[i] = -1 }

\* C1: a batch of fewer than 3 records (an empty or missing one included)
\* comes back from detect_code_anomalies with an empty anomaly list, and the
\* call returns without the forest ever being fitted.
C1_FewSamplesEmptyList ==
    (pc = "detected" /\ Len(Batch) < 3)
        => (anomalies = << >> /\ features = << >> /\ predictions = << >>)

C1_Witness ==
    /\ pc = "detected"
    /\ nlp_analyses # None
    /\ Len(Batch) = 2
    /\ anomalies = << >>

\* C2: every report in the returned anomaly list has an integer score
\* between 0 and 100, whatever raw score the forest gave the file.
C2_ScoreInRange ==
    pc = "detected" => \A k \in 1..Len(anomalies) : anomalies[k].score \in 0..100

C2_Witness ==
    /\ pc = "detected"
    /\ \E i, j \in Flagged : anomaly_scores[i] < -500 /\ anomaly_scores[j] > 500
    /\ \E k, m \in 1..Len(anomalies) : anomalies[k].score = 100 /\ anomalies[m].score = 0

\* the normalized score the file at position i of the batch is reported with
ReportedScore(i) ==
    _create_anomaly_report(Batch[i], features[i], anomaly_scores[i], features).score

\* C3: the anomaly list is ordered most anomalous first: no report comes
\* after one with a strictly smaller normalized score, and of two flagged
\* files the one with the lower (more anomalous) raw score never gets the
\* smaller normalized score.
C3_MostAnomalousFirst ==
    pc = "detected" =>
        /\ \A k, m \in 1..Len(anomalies) :
                k < m => anomalies[k].score >= anomalies[m].score
        /\ \A i, j \in Flagged :
                anomaly_scores[i] < anomaly_scores[j]
                    => ReportedScore(i) >= ReportedScore(j)
        /\ Len(anomalies) = Cardinality(Flagged)

C3_Witness ==
    /\ pc = "detected"
    /\ Len(anomalies) = 3
    /\ anomalies[1].score > anomalies[2].score
    /\ anomalies[2].score > anomalies[3].score
    /\ \E i, j \in Flagged : i < j /\ ReportedScore(i) < ReportedScore(j)

\* record[map][key], or 0 when the map or the key is absent
FieldOrZero(record, map, key) ==
    IF map \in DOMAIN record
    THEN (IF key \in DOMAIN record[map] THEN record[map][key] ELSE 0)
    ELSE 0

\* the 12 numbers the feature vector of a record is to hold, in order
ExpectedRow(record) ==
    << FieldOrZero(record, "metrics", "total_lines"),
       FieldOrZero(record, "metrics", "non_empty_lines"),
       FieldOrZero(record, "metrics", "comment_lines"),
       FieldOrZero(record, "metrics", "comment_ratio"),
       FieldOrZero(record, "metrics", "avg_complexity"),
       FieldOrZero(record, "metrics", "max_complexity"),
       FieldOrZero(record, "metrics", "maintainability_index"),
       FieldOrZero(record, "metrics", "halstead_difficulty"),
       IF "smells" \in DOMAIN record THEN Len(record.smells) ELSE 0,
       FieldOrZero(record, "naming", "consistency_score"),
       FieldOrZero(record, "semantic", "vocabulary_richness"),
       FieldOrZero(record, "semantic", "comment_meaningfulness") >>

\* C4: extract_features returns one row per record, in batch order, each
\* row the 12 numbers of the fixed order with 0 for every absent field or
\* absent metrics / naming / semantic map.
C4_TwelveFeaturesInOrder ==
    (pc = "extracted" \/ (pc = "detected" /\ Len(Batch) >= 3)) =>
        /\ Len(features) = Len(Batch)
        /\ \A i \in 1..Len(Batch) :
            /\ Len(features[i]) = 12
            /\ features[i] = ExpectedRow(Batch[i])

C4_Witness ==
    /\ pc = "extracted"
    /\ Len(Batch) = 3
    /\ \E i, j, k \in 1..3 :
        /\ "metrics" \notin DOMAIN Batch[i]
        /\ features[i] = [d \in 1..12 |-> 0]
        /\ "semantic" \notin DOMAIN Batch[j]
        /\ features[j][1] > 0
        /\ features[j][11] = 0
        /\ \A d \in 1..12 \ {9} : features[k][d] > 0

InUnit(r) == RLe(RInt(0), r) /\ RLe(r, RInt(100))

\* C5: for a non-empty batch (metric values non-negative) and any commit and
\* PR lists, quality_score, productivity_score, risk_score, pr_merge_rate
\* and the six component sub-scores all lie in [0, 100].
C5_ScoresWithin0To100 ==
    (pc = "scored" /\ Truthy(nlp_analyses)) =>
        /\ kpis.quality.quality_score \in 0..1000
        /\ kpis.productivity.productivity_score \in 0..1000
        /\ kpis.productivity.pr_merge_rate \in 0..1000
        /\ kpis.security.risk_score \in 0..100
        /\ InUnit(complexity_score(quality_inputs(Batch).avg_complexity))
        /\ InUnit(doc_score(quality_inputs(Batch).avg_comment_ratio))
        /\ InUnit(smell_score(quality_inputs(Batch).smell_density))
        /\ InUnit(commit_score(commits))
        /\ InUnit(pr_score(prs))
        /\ InUnit(contributor_score(commits))

C5_Witness ==
    /\ pc = "scored"
    /\ Truthy(nlp_analyses)
    /\ LenOrZero(commits) > 10
    /\ kpis.productivity.active_contributors > 5
    /\ kpis.productivity.productivity_score = 1000
    /\ kpis.quality.quality_score = 1000

\* the letter the grade table gives a score in tenths
GradeTable(score) ==
    CASE score >= 900 -> "A"
      [] score >= 800 /\ score < 900 -> "B"
      [] score >= 700 /\ score < 800 -> "C"
      [] score >= 600 /\ score < 700 -> "D"
      [] OTHER -> "F"

\* C6 as stated: grade is a function of overall_health_score alone (two
\* reports with the same score carry the same grade) and follows the table
\* A >= 90, B >= 80, C >= 70, D >= 60, else F.
C6_GradeFunctionOfScoreAlone ==
    pc = "done" =>
        /\ kpis.summary.grade = GradeTable(kpis.summary.overall_health_score)
        /\ (first # None /\ first[1].kpis.summary.overall_health_score
                                = kpis.summary.overall_health_score)
               => first[1].kpis.summary.grade = kpis.summary.grade

\* C6 as amended: for a non-empty batch the grade follows the table and so
\* two such reports with the same score carry the same grade; the report of
\* an empty or missing batch has score 0 and the grade "N/A".
C6_GradeFunctionOfScoreWhenAnalyzed ==
    pc = "done" =>
        /\ Truthy(nlp_analyses)
               => kpis.summary.grade = GradeTable(kpis.summary.overall_health_score)
        /\ ~Truthy(nlp_analyses)
               => (kpis.summary.grade = "N/A" /\ kpis.summary.overall_health_score = 0)
        /\ (/\ first # None
            /\ Truthy(nlp_analyses)
            /\ Truthy(first[1].nlp_analyses)
            /\ first[1].kpis.summary.overall_health_score
                   = kpis.summary.overall_health_score)
               => first[1].kpis.summary.grade = kpis.summary.grade

C6_Witness ==
    /\ pc = "done"
    /\ first # None
    /\ Truthy(nlp_analyses)
    /\ Truthy(first[1].nlp_analyses)
    /\ first[1].nlp_analyses # nlp_analyses
    /\ first[1].kpis.summary.overall_health_score = kpis.summary.overall_health_score
    /\ kpis.summary.grade = "B"

\* C7: with no input files calculate_kpis returns an empty map for each of
\* the four categories and the summary {overall_health_score 0, grade N/A,
\* analyzed_files 0}, whatever the commit and PR lists, and the anomaly
\* list of that batch is empty.
C7_EmptyBatchEmptyReport ==
    (pc = "done" /\ Len(Batch) = 0) =>
        /\ DOMAIN kpis = {"quality", "maintainability", "productivity",
                          "security", "summary"}
        /\ DOMAIN kpis.quality = {}
        /\ DOMAIN kpis.maintainability = {}
        /\ DOMAIN kpis.productivity = {}
        /\ DOMAIN kpis.security = {}
        /\ DOMAIN kpis.summary = {"overall_health_score", "grade", "analyzed_files"}
        /\ kpis.summary.overall_health_score = 0
        /\ kpis.summary.grade = "N/A"
        /\ kpis.summary.analyzed_files = 0
        /\ anomalies = << >>

C7_Witness ==
    /\ pc = "done"
    /\ nlp_analyses = Some(<< >>)
    /\ LenOrZero(commits) = 5
    /\ kpis.summary.grade = "N/A"
    /\ DOMAIN kpis.productivity = {}

\* the author names User1, User2, ... that occur in a commit list
NamedAuthors(commit_list) ==
    { k \in 1..(MaxAuthors + 1) :
        \E i \in 1..Len(commit_list) :
            /\ "author" \in DOMAIN commit_list[i].commit
            /\ commit_list[i].commit.author.name = Some("User" \o ToString(k)) }

\* C8: with a non-empty commit list and an empty PR list the productivity
\* map has commit_frequency = number of commits, pr_merge_rate = 0,
\* active_contributors = number of distinct non-empty author names and
\* productivity_score = 0.4*min(100, 10*commits) + 15
\* + 0.3*min(100, 20*contributors); 5 commits by one author give 41.0.
C8_ProductivityWithoutPrs ==
    (pc = "scored" /\ Truthy(nlp_analyses) /\ Truthy(commits) /\ prs = Some(<< >>)) =>
        LET c == Len(commits[1])
            k == Cardinality(NamedAuthors(commits[1]))
        IN  /\ kpis.productivity.commit_frequency = c
            /\ kpis.productivity.pr_merge_rate = 0
            /\ kpis.productivity.active_contributors = k
            /\ kpis.productivity.productivity_score
                   = 4 * Min2(100, 10 * c) + 150 + 3 * Min2(100, 20 * k)
            /\ (c = 5 /\ k = 1) => kpis.productivity.productivity_score = 410

C8_Witness ==
    /\ pc = "scored"
    /\ Truthy(nlp_analyses)
    /\ commits = Some(CommitList(5, 1, 0))
    /\ prs = Some(<< >>)
    /\ kpis.productivity.productivity_score = 410
    /\ kpis.productivity.active_contributors = 1

\* a KPI report without its summary timestamp
WithoutTimestamp(report) ==
    [quality |-> report.quality, maintainability |-> report.maintainability,
     productivity |-> report.productivity, security |-> report.security,
     summary |-> [k \in DOMAIN report.summary \ {"timestamp"} |-> report.summary[k]]]

SameInputAsFirst ==
    /\ first # None
    /\ first[1].nlp_analyses = nlp_analyses
    /\ first[1].commits = commits
    /\ first[1].prs = prs

\* C9: an invocation on the same batch, commits and PRs as the first one
\* returns the same anomaly list and, but for summary.timestamp, the same
\* KPI report, whatever was analysed in between.
C9_SameInputSameOutput ==
    (pc = "done" /\ SameInputAsFirst) =>
        /\ anomalies = first[1].anomalies
        /\ WithoutTimestamp(kpis) = WithoutTimestamp(first[1].kpis)

C9_Witness ==
    /\ pc = "done"
    /\ SameInputAsFirst
    /\ clock = 3
    /\ Len(anomalies) >= 2
    /\ anomalies[1].score > anomalies[2].score
    /\ kpis.summary.timestamp # first[1].kpis.summary.timestamp

\* the (file, smell) positions of the batch whose smell text, lower-cased,
\* contains one of the five keywords
SecuritySmellPositions(analyses) ==
    { p \in UNION { {<<i, j>> : j \in 1..Len(analyses[i].smells)} :
                      i \in 1..Len(analyses) } :
        \E keyword \in {"password", "secret", "token", "api_key", "private_key"} :
            Contains(Lower(analyses[p[1]].smells[p[2]]), keyword) }

\* C10: security_issue_count is the number of smell strings of the batch
\* that contain, case-insensitively, one of password, secret, token,
\* api_key, private_key, each smell counted once; a batch with the smell
\* "Hardcoded password found" has a count of at least 1.
C10_SecurityIssueCount ==
    (pc = "scored" /\ Truthy(nlp_analyses)) =>
        /\ kpis.security.security_issue_count
               = Cardinality(SecuritySmellPositions(Batch))
        /\ (\E i \in 1..Len(Batch) : \E j \in 1..Len(Batch[i].smells) :
                Batch[i].smells[j] = "Hardcoded password found")
               => kpis.security.security_issue_count >= 1

C10_Witness ==
    /\ pc = "scored"
    /\ Batch = << FileSecrets, FileLegacy >>
    /\ kpis.security.security_issue_count = 6
    /\ kpis.quality.total_code_smells = 8

\* the pull requests of a list that carry a merge date
MergedPrs(pr_list) ==
    { i \in 1..Len(pr_list) :
        /\ "merged_at" \in DOMAIN pr_list[i]
        /\ pr_list[i].merged_at # None }

\* C15: for a non-empty batch and any commit list and PR list that are
\* passed, two empty lists included, productivity_score is
\* 0.4*commitScore + 0.3*prScore + 0.3*contributorScore to one decimal, with
\* commitScore = min(100, 10*commits), contributorScore = min(100,
\* 20*contributors) and prScore = merge rate, or 50 without pull requests,
\* so that a missing PR workflow always contributes 15 points.
C15_ProductivityFormulaEveryList ==
    (pc = "scored" /\ Truthy(nlp_analyses) /\ commits # None /\ prs # None) =>
        LET c == Len(commits[1])
            k == Cardinality(NamedAuthors(commits[1]))
            p == Len(prs[1])
            m == Cardinality(MergedPrs(prs[1]))
            prScore == IF p > 0 THEN Rat(100 * m, p) ELSE RInt(50)
            exact == RAdd(RAdd(Rat(4 * Min2(100, 10 * c), 10), RMul(prScore, Rat(3, 10))),
                          Rat(3 * Min2(100, 20 * k), 10))
        IN  /\ kpis.productivity.productivity_score = Round(exact, 10)
            /\ p = 0 => kpis.productivity.productivity_score >= 150

\* the (file, smell) positions of a batch
SmellPositions(analyses) ==
    UNION { {<<i, j>> : j \in 1..Len(analyses[i].smells)} : i \in 1..Len(analyses) }

\* the files of a batch whose max_complexity is above 15
VeryComplexFiles(analyses) ==
    { i \in 1..Len(analyses) :
        /\ "max_complexity" \in DOMAIN analyses[i].metrics
        /\ analyses[i].metrics.max_complexity > 15 }

\* C17: for a non-empty batch risk_score is 10*securityIssues
\* + 5*highComplexityFiles + 2*totalSmells clamped to 0..100, where
\* highComplexityFiles counts the files with max_complexity > 15 and
\* totalSmells counts every smell, the security-related ones included.
C17_RiskScoreFormula ==
    (pc = "scored" /\ Truthy(nlp_analyses)) =>
        LET securityIssues == Cardinality(SecuritySmellPositions(Batch))
            highComplexityFiles == Cardinality(VeryComplexFiles(Batch))
            totalSmells == Cardinality(SmellPositions(Batch))
            raw == 10 * securityIssues + 5 * highComplexityFiles + 2 * totalSmells
        IN  /\ kpis.security.high_complexity_files = highComplexityFiles
            /\ kpis.security.risk_score
                   = (IF raw < 0 THEN 0 ELSE IF raw > 100 THEN 100 ELSE raw)

\* one security smell among two, one file above 15: 10 + 5 + 2*2 = 19
C17_Witness ==
    /\ pc = "scored"
    /\ Batch = << FileLegacy, FileUtils >>
    /\ kpis.security.security_issue_count = 1
    /\ kpis.security.high_complexity_files = 1
    /\ kpis.security.risk_score = 19

\* C18: for a non-empty batch overall_health_score is 0.6*quality_score
\* + 0.4*maintainability_index rounded to one decimal and not clamped, the
\* grade is the grade of that value, and analyzed_files is the number of
\* records of the batch, unsupported and errored ones included.
C18_OverallHealthScore ==
    (pc = "scored" /\ Truthy(nlp_analyses)) =>
        LET weighted == 6 * kpis.quality.quality_score
                            + 4 * kpis.maintainability.maintainability_index
            overall == kpis.summary.overall_health_score
        IN  /\ 10 * overall - weighted \in -5..5
            /\ (10 * overall - weighted \in {-5, 5}) => overall % 2 = 0
            /\ kpis.summary.grade = GradeTable(overall)
            /\ kpis.summary.analyzed_files = Len(Batch)

\* an unsupported and an errored record are counted next to a scored one
C18_Witness ==
    /\ pc = "scored"
    /\ Batch = << FileUtils, FileReadme, FileBroken >>
    /\ kpis.summary.analyzed_files = 3
    /\ kpis.summary.overall_health_score
           # kpis.quality.quality_score
    /\ kpis.summary.grade = GradeTable(kpis.summary.overall_health_score)
    /\ kpis.maintainability.maintainability_index > 0

\* the five rules: vector position, tag, and the side of the mean
AttributionRules ==
    { [dim |-> 5, tag |-> "complexity", above |-> TRUE],
      [dim |-> 1, tag |-> "size", above |-> TRUE],
      [dim |-> 4, tag |-> "documentation", above |-> FALSE],
      [dim |-> 10, tag |-> "naming", above |-> FALSE],
      [dim |-> 9, tag |-> "code_smells", above |-> TRUE] }

\* row i lies more than two standard deviations from the batch mean on
\* `dim`, the deviation not being zero: with s the column sum, V = n*sum of
\* squares - s*s and d = |n*v - s|, that is V > 0 and d*d > 4*V, the latter
\* written on d \div 2 to stay within the integers of the checker
BeyondTwoSigma(i, dim) ==
    LET n == Len(features)
        s == SumSeq([k \in 1..n |-> features[k][dim]])
        V == n * SumSeq([k \in 1..n |-> features[k][dim] * features[k][dim]]) - s * s
        d == Abs(n * features[i][dim] - s)
        q == d \div 2
    IN  /\ V > 0
        /\ IF d % 2 = 0 THEN V < q * q ELSE V <= q * q + q

RuleFires(i, rule) ==
    LET n == Len(features)
        s == SumSeq([k \in 1..n |-> features[k][rule.dim]])
    IN  /\ BeyondTwoSigma(i, rule.dim)
        /\ IF rule.above THEN n * features[i][rule.dim] > s
           ELSE n * features[i][rule.dim] < s

ExpectedTags(i) == { rule.tag : rule \in { r \in AttributionRules : RuleFires(i, r) } }

\* C12: the tags of every flagged file are exactly the rules that fire for
\* it (a dimension more than two standard deviations from the batch mean,
\* on the rule's side of the mean), each once; the tags are <<general>> with
\* the generic description exactly when no rule fires; a dimension without
\* variance fires nothing.
C12_TagsAreTheFiringRules ==
    pc = "detected" =>
        /\ Len(anomalies) = Cardinality(Flagged)
        /\ \A k \in 1..Len(anomalies) :
              \E i \in Flagged :
                LET types == anomalies[k].types
                    tags == { types[j] : j \in 1..Len(types) }
                IN  /\ anomalies[k].file = Batch[i].filename
                    /\ Len(types) = Cardinality(tags)
                    /\ IF ExpectedTags(i) = {}
                       THEN /\ types = << "general" >>
                            /\ anomalies[k].description
                                   = "Statistical outlier in code metrics"
                       ELSE /\ tags = ExpectedTags(i)
                            /\ anomalies[k].description
                                   # "Statistical outlier in code metrics"
                    /\ \A rule \in AttributionRules :
                          (\A a, b \in 1..Len(features) :
                               features[a][rule.dim] = features[b][rule.dim])
                              => rule.tag \notin tags

\* two files flagged in a batch of twelve: one trips four rules, the other
\* is far below the mean size and trips none
C12_Witness ==
    /\ pc = "detected"
    /\ Len(Batch) = 12
    /\ Len(anomalies) = 2
    /\ \E k \in 1..2 :
          /\ anomalies[k].file = "legacy.py"
          /\ anomalies[k].types = << "documentation", "complexity", "code_smells", "naming" >>
    /\ \E k \in 1..2 :
          /\ anomalies[k].file = "stub.py"
          /\ anomalies[k].types = << "general" >>

\* the batch of scenario 1: ten identical 200-line files and one of 5000
HugeAmongTen(j) ==
    /\ Len(Batch) = 11
    /\ j \in 1..11
    /\ Get(Batch[j].metrics, "total_lines", 0) = 5000
    /\ \A i \in 1..11 \ {j} :
          Batch[i] = Batch[(j % 11) + 1] /\ Get(Batch[i].metrics, "total_lines", 0) = 200

EndsWith(name, suffix) ==
    /\ Len(name) >= Len(suffix)
    /\ SubSeq(name, Len(name) - Len(suffix) + 1, Len(name)) = suffix

HasCodeExtension(name) ==
    \E ext \in {"py", "js", "ts", "jsx", "tsx", "go", "java", "rs", "cpp", "c", "cs"} :
        EndsWith(name, "." \o ext)

\* C13: a file whose extension is not one of the analysed ones comes back
\* from analyze_code_file, whatever its content, as the record {filename,
\* empty metrics, no smells, empty naming and documentation} without an
\* error field, and its row of the feature matrix is all zeros.
C13_UnsupportedExtensionEmptyRecord ==
    \A i \in DOMAIN important_files :
        (i <= Len(Batch) /\ ~HasCodeExtension(important_files[i].name)) =>
            /\ DOMAIN Batch[i]
                   = {"filename", "metrics", "smells", "naming", "documentation"}
            /\ Batch[i].filename = important_files[i].name
            /\ DOMAIN Batch[i].metrics = {}
            /\ Batch[i].smells = << >>
            /\ DOMAIN Batch[i].naming = {}
            /\ DOMAIN Batch[i].documentation = {}
            /\ pc = "extracted" => features[i] = [d \in 1..12 |-> 0]

\* main.PY, on a text that would fail, next to an analysed Python file
C13_Witness ==
    /\ pc = "extracted"
    /\ Len(important_files) = 2
    /\ important_files[1].name = "main.PY"
    /\ important_files[1].content.raises = "detect_comments"
    /\ features[1] = [d \in 1..12 |-> 0]
    /\ important_files[2].name = "utils.py"
    /\ features[2][1] = 40
    /\ features[2][5] = 750

\* a step of the analysis of this file raises
ExtractionFails(file_data) ==
    /\ HasCodeExtension(file_data.name)
    /\ file_data.content.raises # ""
    /\ file_data.content.raises \in {"cc_visit", "mi_visit", "h_visit"}
           => EndsWith(file_data.name, ".py")

\* C14: every failure while the metrics of a supported file are extracted,
\* one of the complexity, maintainability or Halstead analysis included, is
\* recorded in an error field of that file's record; the record is still
\* appended and the remaining files are analysed.
C14_EveryFailureRecorded ==
    /\ \A i \in DOMAIN important_files :
          (i <= Len(Batch) /\ ExtractionFails(important_files[i]))
              => "error" \in DOMAIN Batch[i]
    /\ (pc \in {"ready", "extracted"} /\ important_files # << >>)
          => Len(Batch) = Len(important_files)

\* C11: no exception of anomaly detection or KPI scoring reaches the
\* caller: whatever the batch and the activity lists, both calls return, and
\* a batch on which scoring fails gets the zero/default KPI structure.
C11_NoExceptionReachesCaller ==
    /\ pc # "raised"
    /\ (pc = "done" /\ calculate_kpis_raises(nlp_analyses)) => kpis = _empty_kpis

\* the last save or delete the log holds for a key, if any
LastWrite(repo_id, github_user_id) ==
    LET writes == SelectSeq(history, LAMBDA e :
                      /\ e.op \in {"save", "delete"}
                      /\ e.repo_id = repo_id
                      /\ e.github_user_id = github_user_id)
    IN  IF writes = << >> THEN None ELSE Some(writes[Len(writes)])

\* what the store owes a reader of the key: nothing, or the reports of the
\* last save
Owed(repo_id, github_user_id, returned) ==
    LET last == LastWrite(repo_id, github_user_id)
    IN  IF last = None \/ last[1].op = "delete" THEN returned = None
        ELSE /\ returned # None
             /\ returned[1].kpis = last[1].data.kpis
             /\ returned[1].anomalies = last[1].data.anomalies

\* C19: the table holds at most one row per (repo_id, github_user_id), and
\* get_analysis(r, u) returns the kpis and anomalies of the last save for
\* exactly (r, u) that no delete for (r, u) followed, as they were handed to
\* save_analysis, and None otherwise; writes for other keys change nothing.
C19_StoreKeyedByRepoAndUser ==
    /\ \A i, j \in 1..Len(analysis_results) :
           row_matches(analysis_results[i], analysis_results[j].repo_id,
                       analysis_results[j].github_user_id) => i = j
    /\ \A repo_id \in RepoIds, github_user_id \in UserIds :
           Owed(repo_id, github_user_id,
                get_analysis(analysis_results, repo_id, github_user_id))
    /\ pc = "fetched" =>
           Owed(fetched[1].repo_id, fetched[1].github_user_id, fetched[1].returned)

\* two users have saved for repository 1 and the first reads back the two
\* anomaly reports of their own save
C19_Witness ==
    /\ pc = "fetched"
    /\ Len(history) = 2
    /\ history[1].op = "save" /\ history[1].repo_id = 1 /\ history[1].github_user_id = 7
    /\ Len(history[1].data.anomalies) = 2
    /\ history[2].op = "save" /\ history[2].repo_id = 1 /\ history[2].github_user_id = 8
    /\ history[2].data.anomalies = << >>
    /\ Len(analysis_results) = 2
    /\ fetched[1].repo_id = 1 /\ fetched[1].github_user_id = 7
    /\ fetched[1].returned # None
    /\ Len(fetched[1].returned[1].anomalies) = 2
    /\ fetched[1].returned[1].anomalies[1].types = << "general" >>
    /\ fetched[1].returned[1].kpis.summary.analyzed_files = 3

\* the cache writes the log holds for a repository, oldest first
CacheWrites(repo_id) ==
    SelectSeq(history, LAMBDA e : e.op = "cache" /\ e.repo_id = repo_id)

\* C20: the cache is last-write-wins without versioning: under every
\* interleaving of analyze requests, analysis_cache[R] is the result of the
\* request whose cache write for R came last (and R has no entry before the
\* first write), and a request that failed, at any step up to and including
\* save_analysis, has written nothing to the cache.
C20_CacheLastWriteWins ==
    /\ \A repo_id \in RepoIds :
           LET writes == CacheWrites(repo_id)
           IN  IF writes = << >> THEN repo_id \notin DOMAIN analysis_cache
               ELSE /\ repo_id \in DOMAIN analysis_cache
                    /\ analysis_cache[repo_id] = writes[Len(writes)].data
                    /\ analysis_cache[repo_id] =
                           requests[writes[Len(writes)].worker].result[1]
    /\ \A w \in Workers :
           requests[w].status \in {401, 500} =>
               \A i \in 1..Len(history) :
                   history[i].op = "cache" => history[i].worker # w

\* two requests for repository 1 have written different results to the
\* cache, the entry is the later one's, and a third request for it failed
C20_Witness ==
    /\ Len(CacheWrites(1)) = 2
    /\ CacheWrites(1)[1].data # CacheWrites(1)[2].data
    /\ analysis_cache[1] = CacheWrites(1)[2].data
    /\ analysis_cache[1].kpis.summary.analyzed_files = 0
    /\ \E w \in Workers : requests[w].status = 500 /\ requests[w].repo_id = 1

\* the quality score a batch gets when its complexity sub-score is the
\* maximal 100
QualityScoreAtFullComplexity(analyses) ==
    LET q == quality_inputs(analyses)
    IN  Round(RAdd(RInt(40),
                   RAdd(RMul(doc_score(q.avg_comment_ratio), Rat(3, 10)),
                        RMul(smell_score(q.smell_density), Rat(3, 10)))), 10)

\* no file of the batch has a measured avg_complexity
ComplexityUnmeasured(analyses) ==
    \A i \in 1..Len(analyses) : "avg_complexity" \notin DOMAIN analyses[i].metrics

\* C21: an unmeasured complexity is not taken for a perfect one: a scored
\* batch in which no file has a measured avg_complexity does not get the
\* quality score that the maximal complexity sub-score of 100 gives.
C21_UnmeasuredComplexityNotPerfect ==
    (pc = "scored" /\ Batch # << >> /\ ComplexityUnmeasured(Batch))
        => kpis.quality.quality_score # QualityScoreAtFullComplexity(Batch)

\* the record analyze_code_file returns for an unsupported extension
Unsupported(record) ==
    /\ Get(record, "metrics", 0) = << >>
    /\ Get(record, "smells", 0) = << >>
    /\ Get(record, "naming", 0) = << >>
    /\ "semantic" \notin DOMAIN record
    /\ "error" \notin DOMAIN record

\* the batch without its i-th record
Without(analyses, i) == SubSeq(analyses, 1, i - 1) \o SubSeq(analyses, i + 1, Len(analyses))

\* the mean of a metric over all n records of a batch, an absent value
\* counting as 0, rounded to 1/scale
DilutedMean(analyses, key, scale) ==
    Round(Rat(SumSeq([j \in 1..Len(analyses) |-> Get(analyses[j].metrics, key, 0)]),
              100 * Len(analyses)), scale)

\* C22 as claimed: an unsupported-extension record counts as a zero-valued
\* member in every mean of the KPI report, the complexity mean and the
\* maintainability-index mean included.
C22_DilutesEveryMean ==
    (pc = "done" /\ \E i \in 1..Len(Batch) : Unsupported(Batch[i]))
        => /\ kpis.quality.avg_complexity = DilutedMean(Batch, "avg_complexity", 100)
           /\ kpis.maintainability.maintainability_index
                  = DilutedMean(Batch, "maintainability_index", 10)

\* C22, amended: an unsupported-extension record counts as a zero-valued
\* member in the comment-ratio mean of the KPI report and as an all-zero row
\* of the feature matrix whose columns give the detector and the attribution
\* step their means and standard deviations; the means of complexity,
\* maintainability index, naming consistency and vocabulary richness are
\* taken over the records that carry the value and are what they are
\* without the record.
C22_DilutesCommentRatioAndFeatures ==
    pc = "done" =>
        \A i \in 1..Len(Batch) :
            (Unsupported(Batch[i]) /\ Len(Batch) > 1) =>
                LET rest == calculate_kpis(Some(Without(Batch, i)), commits, prs, clock)
                IN  /\ kpis.quality.documentation_coverage
                           = Round(RMul(Rat(SumSeq([j \in 1..Len(Batch) |->
                                                Get(Batch[j].metrics, "comment_ratio", 0)]),
                                            100 * Len(Batch)), RInt(100)), 10)
                    /\ kpis.quality.avg_complexity = rest.quality.avg_complexity
                    /\ kpis.maintainability.maintainability_index
                           = rest.maintainability.maintainability_index
                    /\ kpis.maintainability.naming_consistency
                           = rest.maintainability.naming_consistency
                    /\ kpis.maintainability.vocabulary_richness
                           = rest.maintainability.vocabulary_richness
                    /\ features # << >> =>
                           /\ Len(features) = Len(Batch)
                           /\ features[i] = [d \in 1..Len(feature_names) |-> 0]

\* utils.py next to README.md: the documentation coverage is halved to
\* 17.5, the complexity stays at the 3.5 of utils.py
C22_Witness ==
    /\ pc = "done"
    /\ Batch = << FileUtils, FileReadme >>
    /\ kpis.quality.documentation_coverage = 175
    /\ kpis.quality.avg_complexity = 350
    /\ kpis.maintainability.maintainability_index = 855

\* C23: on a batch of n >= 3 files the boundary set at 10% contamination
\* labels at most ceil(0.1 * n) files anomalous: the anomaly list has one
\* report per labelled file, is strictly shorter than the batch, and is
\* empty when all feature vectors are identical.
C23_AtMostTenthFlagged ==
    (pc = "detected" /\ Len(Batch) >= 3)
        => /\ Cardinality(Flagged) <= (Len(Batch) + 9) \div 10
           /\ Len(anomalies) = Cardinality(Flagged)
           /\ Len(anomalies) < Len(Batch)
           /\ Cardinality(distinct_rows(features)) = 1 => anomalies = << >>

\* ten look-alikes and two other files: both of the others are reported
C23_Witness ==
    /\ pc = "detected"
    /\ Len(Batch) = 12
    /\ Cardinality(distinct_rows(features)) = 3
    /\ Len(anomalies) = 2
    /\ Flagged = {11, 12}

\* the 0-based indices of the lines of the analysed text the function pattern
\* of its language matches, ascending
Declarations ==
    LET lines_ == important_files[1].content
        ext == file_ext(important_files[1].name)
    IN  IF ext \notin function_patterns THEN << >>
        ELSE SelectSeq([k \in 1..Len(lines_) |-> k - 1],
                       LAMBDA i : re_search(ext, lines_[i + 1]) # None)

\* the long-function smells of the analysed text, in the order recorded
LongFunctionSmells ==
    SelectSeq(nlp_analyses[1][1].smells,
              LAMBDA smell : Len(smell) >= 13 /\ SubSeq(smell, 1, 13) = "Long function")

(* C24: in a file of a language with a function pattern, a 'Long function'  *)
(* smell is recorded for a declaration exactly when the next declaration    *)
(* starts more than 50 lines after it, naming the declaration and the       *)
(* distance; the last declaration yields none, so there are at most         *)
(* (declarations - 1) such smells.                                          *)
C24_LongFunctionNeedsNextDeclaration ==
    pc = "text_analysed" =>
        LET lines_ == important_files[1].content
            ext == file_ext(important_files[1].name)
            bounded == SelectSeq([k \in 1..Len(Declarations) |-> k],
                           LAMBDA k : /\ k < Len(Declarations)
                                      /\ Declarations[k + 1] - Declarations[k] > 50)
        IN  /\ LongFunctionSmells =
                  [j \in 1..Len(bounded) |->
                      "Long function '"
                          \o declared_name(ext, lines_[Declarations[bounded[j]] + 1])
                          \o "': "
                          \o ToString(Declarations[bounded[j] + 1]
                                          - Declarations[bounded[j]])
                          \o " lines"]
            /\ Declarations # << >> => Len(LongFunctionSmells) <= Len(Declarations) - 1
            /\ Declarations = << >> => LongFunctionSmells = << >>

\* a text of two declarations, each followed by 50 empty lines: one smell,
\* for the first declaration only
C24_Witness ==
    /\ pc = "text_analysed"
    /\ Len(Declarations) = 2
    /\ Declarations[2] - Declarations[1] = 51
    /\ Len(important_files[1].content) - Declarations[2] = 51
    /\ Len(LongFunctionSmells) = 1

\* the identifiers analyze_naming_conventions finds in the analysed text
Identifiers == identifiers(important_files[1].content)

(* C25: every identifier falls into exactly one of the buckets snake_case,  *)
(* camelCase and PascalCase: no identifier is in two of them, the three     *)
(* counts sum to the number of identifiers, and consistency_score is at     *)
(* least 1/3 (0.33 once rounded) whenever the file has an identifier.       *)
C25_EveryIdentifierInOneBucket ==
    (pc = "text_analysed" /\ file_ext(important_files[1].name) \in code_extensions
        /\ Identifiers # << >>) =>
        /\ \A k \in 1..Len(Identifiers) :
              Cardinality({ bucket \in {"snake", "camel", "pascal"} :
                  \/ bucket = "snake" /\ is_snake_case(Identifiers[k])
                  \/ bucket = "camel" /\ is_camel_case(Identifiers[k])
                  \/ bucket = "pascal" /\ is_pascal_case(Identifiers[k]) }) = 1
        /\ snake_case(Identifiers) + camel_case(Identifiers) + pascal_case(Identifiers)
              = Len(Identifiers)
        /\ nlp_analyses[1][1].naming.consistency_score >= 33

\* the records analyze_code_file gives for the fetched files, in their order
ExtractedBatch ==
    [i \in 1..Len(important_files) |->
        analyze_code_file(important_files[i].name, important_files[i].content, FALSE)]

\* the pc values of a request that has run the detector / the calculator
DetectorRan == {"detected", "done", "detected_last"}
CalculatorRan == {"scored", "done", "detected_last"}

(* C26: the detector and the KPI calculator run only on the batch of every  *)
(* fetched file, leave the records, the commits and the pull requests as    *)
(* they were, and give the same anomaly list and (but for its timestamp)    *)
(* the same KPI report whichever of them ran first or ran at all.           *)
C26_ConsumersIndependent ==
    /\ (pc \in DetectorRan \cup CalculatorRan) => Batch = ExtractedBatch
    /\ first # None => (first[1].commits = commits /\ first[1].prs = prs)
    /\ (first # None /\ pc \in DetectorRan /\ first[1].calls \in DetectorRan) =>
          anomalies = first[1].anomalies
    /\ (first # None /\ pc \in CalculatorRan /\ first[1].calls \in CalculatorRan) =>
          WithoutTimestamp(kpis) = WithoutTimestamp(first[1].kpis)

\* a three-file repository analysed detector first, then again calculator
\* first: an anomaly is reported both times
C26_Witness ==
    /\ pc = "detected_last"
    /\ first # None
    /\ first[1].calls = "done"
    /\ Len(Batch) = 3
    /\ Len(anomalies) >= 1
    /\ kpis.summary.analyzed_files = 3

\* the report is the one of the record at position i of the batch: its name
\* and the four metric values of the snapshot
ReportOf(report, i) ==
    /\ report.file = Batch[i].filename
    /\ report.metrics.complexity = FieldOrZero(Batch[i], "metrics", "avg_complexity")
    /\ report.metrics.lines = FieldOrZero(Batch[i], "metrics", "total_lines")
    /\ report.metrics.comment_ratio = FieldOrZero(Batch[i], "metrics", "comment_ratio")
    /\ report.metrics.smells =
          (IF "smells" \in DOMAIN Batch[i] THEN Len(Batch[i].smells) ELSE 0)

(* C27: the anomaly reports and the records the forest labelled anomalous   *)
(* correspond one to one: every report carries the filename and the         *)
(* avg_complexity, total_lines, comment_ratio and smell count of its own    *)
(* record, no record has two reports and a record labelled normal has none. *)
C27_OneReportPerFlaggedRecord ==
    pc = "detected" =>
        \E record_of \in [1..Len(anomalies) -> 1..Len(Batch)] :
            /\ \A k, m \in 1..Len(anomalies) : k # m => record_of[k] # record_of[m]
            /\ { record_of[k] : k \in 1..Len(anomalies) } = Flagged
            /\ \A k \in 1..Len(anomalies) : ReportOf(anomalies[k], record_of[k])

\* two of three files flagged, the later one reported first, and a third
\* file with other metrics left out
C27_Witness ==
    /\ pc = "detected"
    /\ Len(Batch) = 3
    /\ Flagged = {2, 3}
    /\ Len(anomalies) = 2
    /\ ReportOf(anomalies[1], 3) /\ ~ReportOf(anomalies[1], 2)
    /\ ReportOf(anomalies[2], 2) /\ ~ReportOf(anomalies[2], 1)

NoRequestInFlight == \A w \in Workers : requests[w].pc \in {"idle", "done"}

(* C30: once the analyze requests for a repository and user have all        *)
(* completed, whatever their interleaving, the cache entry of the           *)
(* repository and the row of (repository, user) hold the same analysis:     *)
(* the dashboard served from the cache equals the one served from the row.  *)
C30_CacheAgreesWithRow ==
    NoRequestInFlight =>
        \A repo_id \in RepoIds, user \in SessionUsers :
            get_dashboard(analysis_cache, analysis_results, repo_id, Some(user), TRUE)
                = get_dashboard(<< >>, analysis_results, repo_id, Some(user), TRUE)

\* what the endpoint would answer with from the given analysis
BodyFrom(endpoint, repo_id, analysis) ==
    CASE endpoint = "dashboard" -> dashboard_data(repo_id, analysis)
      [] endpoint = "kpis" -> [kpis |-> analysis.kpis]
      [] endpoint = "anomalies" ->
           [anomalies |-> analysis.anomalies, count |-> Len(analysis.anomalies)]
      [] OTHER -> analysis

(* C29: an analysis generated by a user's analyze request is returned only  *)
(* to requests authenticated as that user: every 200 answer of the          *)
(* dashboard, KPI, anomaly and lookup endpoints went to a request with a    *)
(* valid token and carries what an analyze request of the token's user      *)
(* produced for the repository.                                             *)
C29_ResultsOnlyToTheirUser ==
    (pc = "served" /\ fetched[1].response.status = 200) =>
        /\ fetched[1].user # None
        /\ \E i \in 1..Len(history) :
              /\ history[i].github_user_id = fetched[1].user[1]
              /\ history[i].repo_id = fetched[1].repo_id
              /\ fetched[1].response.body[1]
                    = BodyFrom(fetched[1].endpoint, fetched[1].repo_id, history[i].data)

====
